---------------------------- MODULE Spec2Model ----------------------------
(***************************************************************************)
(* Model of the Axur risk-scoring toolkit: the paginated API client        *)
(* (core/axur_client.py), the 4-factor KRI calculators                     *)
(* (use_cases/risk_scoring/calculator.py, calculator_v4.py) and the        *)
(* legacy 5-factor pipeline (mainTest.py).                                 *)
(*                                                                         *)
(* Numbers.  Python computes the scores in IEEE-754 doubles.  Here every   *)
(* real is an exact rational <<n, d>> with d > 0; int() is truncation      *)
(* toward zero.  Where a double computation may differ from the exact      *)
(* value (an operand that is no dyadic rational), an exactly integral      *)
(* result n may be produced as a double slightly below n, so int() may     *)
(* give n - 1: IntOfFloat gives the set of integers int() can return.      *)
(***************************************************************************)
EXTENDS Integers, Sequences, FiniteSets, TLC

(***************************************************************************)
(* Bounds of the model.                                                    *)
(***************************************************************************)
\* items per page the client asks for (the program asks for 200)
PageSize == 2
\* size of the largest dataset the server holds
MaxItems == 4

None == "None"

(***************************************************************************)
(* Exact rationals.                                                        *)
(***************************************************************************)
RECURSIVE GCD(_, _)
GCD(a, b) == IF b = 0 THEN a ELSE GCD(b, a % b)

Abs(n) == IF n < 0 THEN -n ELSE n

Rat(n, d) == <<n, d>>

RNorm(q) ==
    LET g == GCD(Abs(q[1]), q[2])
    IN  IF g = 0 THEN <<0, 1>> ELSE <<q[1] \div g, q[2] \div g>>

RInt(n) == <<n, 1>>

RAdd(p, q) == RNorm(<<p[1] * q[2] + q[1] * p[2], p[2] * q[2]>>)

RSub(p, q) == RNorm(<<p[1] * q[2] - q[1] * p[2], p[2] * q[2]>>)

RMul(p, q) == RNorm(<<p[1] * q[1], p[2] * q[2]>>)

\* p / q for q > 0
RDiv(p, q) == RNorm(<<p[1] * q[2], p[2] * q[1]>>)

RLess(p, q) == p[1] * q[2] < q[1] * p[2]

RMin(p, q) == IF RLess(q, p) THEN q ELSE p

RMax(p, q) == IF RLess(p, q) THEN q ELSE p

RIsInt(q) == RNorm(q)[2] = 1

\* the largest integer <= q
RFloor(q) == q[1] \div q[2]

\* int(q): truncation toward zero
RTrunc(q) == IF q[1] >= 0 THEN q[1] \div q[2] ELSE -((-q[1]) \div q[2])

\* a dyadic rational of this size is a double, and arithmetic on doubles
\* whose exact result is a double is exact
Dyadic(q) == RNorm(q)[2] \in {1, 2, 4, 8, 16, 32, 64}

\* round-half-up in place of int()
IntOfFloatRounded(q, exact) == {RFloor(RAdd(q, Rat(1, 2)))}

\* The integers int(v) can be for a double v that approximates the
\* non-negative exact value q: q's truncation, and one less when q is an
\* integer that the double computation may have approached from below.
IntOfFloat(q, exact) ==
    IF RIsInt(q) /\ ~exact /\ RFloor(q) > 0 /\ RFloor(q) < 1000
    THEN {RFloor(q) - 1, RFloor(q)}
    ELSE {RTrunc(q)}

Max(a, b) == IF a > b THEN a ELSE b

Min(a, b) == IF a < b THEN a ELSE b

RECURSIVE Concat(_)
Concat(ss) == IF ss = <<>> THEN <<>> ELSE Head(ss) \o Concat(Tail(ss))

\* the sequences over S of length at most n
SeqsUpTo(S, n) == UNION {[1..k -> S] : k \in 0..n}

(***************************************************************************)
(* Tickets.  A ticket is the JSON object of /tickets-api/tickets: the      *)
(* fields the program reads are detection.type, detection.assets,          *)
(* detection.resolution (mainTest.py) and current.resolution               *)
(* (calculator.py).  A field the JSON lacks is None.                       *)
(***************************************************************************)
Ticket(type, assets, resolution) ==
    [detection |-> [type |-> type, assets |-> assets, resolution |-> resolution],
     current |-> [resolution |-> resolution]]

\* the tickets the server may hold
TicketKinds ==
    { Ticket("ransomware-attack", {"BrandA"}, None),
      Ticket("infostealer-credential", {"brand-a-key"}, None),
      Ticket("phishing", {"BrandA", "BrandB"}, "discarded"),
      Ticket("similar-domain-name", {}, "resolved"),
      Ticket("unknown-type", {"BrandB"}, None),
      Ticket(None, {}, None) }

\* dict.get(key, default) on a field that may be absent
Get(value, default) == IF value = None THEN default ELSE value

(***************************************************************************)
(* use_cases/risk_scoring/calculator.py (calculator_v4.py holds the same   *)
(* table and the same three helpers).                                      *)
(***************************************************************************)
ThreatTypes ==
    {"ransomware-attack", "data-exposure-message", "infostealer-credential",
     "corporate-credential-leak", "malware", "phishing", "fake-mobile-app",
     "fraudulent-brand-use", "similar-domain-name", "dw-activity",
     "data-exposure", "default"}

THREAT_WEIGHTS(t) ==
    CASE t = "ransomware-attack" -> 100
      [] t = "data-exposure-message" -> 80
      [] t = "infostealer-credential" -> 70
      [] t = "corporate-credential-leak" -> 60
      [] t = "malware" -> 50
      [] t = "phishing" -> 50
      [] t = "fake-mobile-app" -> 40
      [] t = "fraudulent-brand-use" -> 20
      [] t = "similar-domain-name" -> 15
      [] t = "dw-activity" -> 30
      [] t = "data-exposure" -> 40
      [] t = "default" -> 10

\* the weight with nothing for a type the table lacks
ThreatWeightOrZero(t) == IF t \in ThreatTypes THEN THREAT_WEIGHTS(t) ELSE 0

\* THREAT_WEIGHTS.get(ticket_type, THREAT_WEIGHTS["default"])
ThreatWeight(t) == IF t \in ThreatTypes THEN THREAT_WEIGHTS(t) ELSE THREAT_WEIGHTS("default")

\* every ticket counted, whatever the flag
CountedTicketsAll(tickets, exclude_discarded) == tickets

\* the tickets the loop of calculate_weighted_incidents counts
CountedTickets(tickets, exclude_discarded) ==
    SelectSeq(tickets, LAMBDA t : ~(exclude_discarded /\ t.current.resolution = "discarded"))

\* a round that counts the ticket and leaves the score of its type
BreakdownAddCount(breakdown, ticket_type, weight) ==
    [breakdown EXCEPT ![ticket_type].count = @ + 1]

\* the two += of a round of the loop
BreakdownAdd(breakdown, ticket_type, weight) ==
    [breakdown EXCEPT ![ticket_type].count = @ + 1, ![ticket_type].score = @ + weight]

\* ticket.get("detection", {}).get("type", "unknown")
TicketType(ticket) == Get(ticket.detection.type, "unknown")

\* the entry of a type the breakdown lacks
BreakdownEnter(breakdown, ticket_type) ==
    breakdown @@
    (ticket_type :> [count |-> 0, weight |-> ThreatWeight(ticket_type), score |-> 0])

\* a round of the loop: a type the breakdown lacks gets its entry first
BreakdownRound(breakdown, ticket) ==
    IF TicketType(ticket) \notin DOMAIN breakdown
    THEN BreakdownAdd(BreakdownEnter(breakdown, TicketType(ticket)),
                      TicketType(ticket), ThreatWeight(TicketType(ticket)))
    ELSE BreakdownAdd(breakdown, TicketType(ticket), ThreatWeight(TicketType(ticket)))

\* the loop over the counted tickets, in the order of the list: the rounds
\* of the first half, then those of the second on what the first half left
\* (the comparison has the first half evaluated before the second is
\* entered; both branches hand on the same breakdown)
RECURSIVE BreakdownOf(_, _)
BreakdownOf(tickets, breakdown) ==
    LET n == Len(tickets)
        first == BreakdownOf(SubSeq(tickets, 1, n \div 2), breakdown)
    IN  IF n = 0 THEN breakdown
        ELSE IF n = 1 THEN BreakdownRound(breakdown, tickets[1])
        ELSE IF first = breakdown
        THEN BreakdownOf(SubSeq(tickets, n \div 2 + 1, n), breakdown)
        ELSE BreakdownOf(SubSeq(tickets, n \div 2 + 1, n), first)

RECURSIVE SumField(_, _, _)
SumField(breakdown, keys, f) ==
    IF keys = {} THEN 0
    ELSE LET k == CHOOSE x \in keys : TRUE
         IN  breakdown[k][f] + SumField(breakdown, keys \ {k}, f)

EmptyBreakdown == [k \in {} |-> 0]

calculate_weighted_incidents(tickets, exclude_discarded) ==
    LET breakdown == BreakdownOf(CountedTickets(tickets, exclude_discarded), EmptyBreakdown)
    IN  [weighted_score |-> SumField(breakdown, DOMAIN breakdown, "score"),
         total_count |-> SumField(breakdown, DOMAIN breakdown, "count"),
         breakdown |-> breakdown]

\* the bands with the first one closed below 5
StealerBandEarly(stealer_count) ==
    IF stealer_count = 0 THEN Rat(0, 1)
    ELSE IF stealer_count < 5 THEN Rat(2, 10)
    ELSE IF stealer_count <= 20 THEN Rat(5, 10)
    ELSE Rat(1, 1)

\* the bands of calculate_stealer_factor
StealerBand(stealer_count) ==
    IF stealer_count = 0 THEN Rat(0, 1)
    ELSE IF stealer_count <= 5 THEN Rat(2, 10)
    ELSE IF stealer_count <= 20 THEN Rat(5, 10)
    ELSE Rat(1, 1)

\* the stealer factor of the tickets that are not discarded
calculate_stealer_factor_kept(tickets) ==
    LET stealer_count ==
            Len(SelectSeq(tickets, LAMBDA t : /\ t.detection.type = "infostealer-credential"
                                              /\ t.current.resolution # "discarded"))
    IN  [factor |-> StealerBand(stealer_count), count |-> stealer_count]

calculate_stealer_factor(tickets) ==
    LET stealer_count ==
            Len(SelectSeq(tickets, LAMBDA t : t.detection.type = "infostealer-credential"))
    IN  [factor |-> StealerBand(stealer_count), count |-> stealer_count]

\* the bands with the A band opening above 850
determine_grade_above(score) ==
    IF score > 850 THEN <<"A", "Excelente - Postura de seguridad superior">>
    ELSE IF score >= 700 THEN <<"B", "Bueno - Riesgo controlado">>
    ELSE IF score >= 550 THEN <<"C", "Moderado - Requiere atencion">>
    ELSE IF score >= 400 THEN <<"D", "Alto Riesgo - Accion inmediata requerida">>
    ELSE <<"F", "Critico - Multiples vectores de ataque activos">>

determine_grade(score) ==
    IF score >= 850 THEN <<"A", "Excelente - Postura de seguridad superior">>
    ELSE IF score >= 700 THEN <<"B", "Bueno - Riesgo controlado">>
    ELSE IF score >= 550 THEN <<"C", "Moderado - Requiere atencion">>
    ELSE IF score >= 400 THEN <<"D", "Alto Riesgo - Accion inmediata requerida">>
    ELSE <<"F", "Critico - Multiples vectores de ataque activos">>

determine_grade_v4(score) ==
    IF score >= 850 THEN <<"A", "Excellent - Superior security posture">>
    ELSE IF score >= 700 THEN <<"B", "Good - Controlled risk">>
    ELSE IF score >= 550 THEN <<"C", "Moderate - Requires attention">>
    ELSE IF score >= 400 THEN <<"D", "High Risk - Immediate action required">>
    ELSE <<"F", "Critical - Multiple active attack vectors">>

\* the ratio taken as 1 when there is no incident
BenchmarkRatioOrOne(total, sector_median) ==
    IF sector_median > 0 /\ total > 0 THEN RNorm(Rat(total, sector_median)) ELSE Rat(1, 1)

\* total / sector_median if sector_median > 0 else 1.0
BenchmarkRatio(total, sector_median) ==
    IF sector_median > 0 THEN RNorm(Rat(total, sector_median)) ELSE Rat(1, 1)

\* the base penalty with the ratio as it is, not raised to 0.5
BaseScoreOfRatio(weighted_score, benchmark_ratio) ==
    IF RLess(Rat(0, 1), benchmark_ratio)
    THEN RMin(Rat(500, 1), RDiv(RInt(weighted_score), benchmark_ratio))
    ELSE RInt(Min(500, weighted_score))

\* the base penalty: min(500, weighted / max(ratio, 0.5)), or min(500, weighted)
\* when the ratio is 0
BaseScore(weighted_score, benchmark_ratio) ==
    IF RLess(Rat(0, 1), benchmark_ratio)
    THEN RMin(Rat(500, 1), RDiv(RInt(weighted_score), RMax(benchmark_ratio, Rat(1, 2))))
    ELSE RInt(Min(500, weighted_score))

\* max(0, min(1000, int(1000 - penalty)))
ClampedInt(penalty) == Max(0, Min(1000, RTrunc(RSub(Rat(1000, 1), penalty))))

\* calculate_risk_score after the fetch: the tenant's score from its tickets
RiskScore(tickets, brand_filter, exclude_discarded) ==
    LET mine == IF brand_filter # None
                THEN SelectSeq(tickets, LAMBDA t : brand_filter \in t.detection.assets)
                ELSE tickets
        kri1 == calculate_weighted_incidents(mine, exclude_discarded)
        sector_median == 100
        benchmark_ratio == BenchmarkRatio(kri1.total_count, sector_median)
        stealer == calculate_stealer_factor(mine)
        slow_factor == Rat(0, 1)
        reputational_factor == Rat(0, 1)
        base_score == BaseScore(kri1.weighted_score, benchmark_ratio)
        total_penalty == RMul(RMul(RAdd(Rat(1, 1), stealer.factor),
                                   RAdd(Rat(1, 1), slow_factor)),
                              RAdd(Rat(1, 1), reputational_factor))
        final_score == ClampedInt(RMul(base_score, total_penalty))
        grade == determine_grade(final_score)
    IN  [score |-> final_score, grade |-> grade[1], status |-> grade[2],
         total_incidents |-> kri1.total_count, weighted_score |-> kri1.weighted_score,
         benchmark_ratio |-> benchmark_ratio, stealer_factor |-> stealer.factor,
         efficiency_pct |-> 0, reputational_factor |-> reputational_factor,
         breakdown |-> kri1.breakdown]

\* calculate_risk_score_per_brand, one round of its loop over the brands
\* after the brand's tickets are selected
BrandRiskScore(brand_name, brand_tickets) ==
    LET kri1 == calculate_weighted_incidents(brand_tickets, FALSE)
        sector_median == 50
        benchmark_ratio == BenchmarkRatio(kri1.total_count, sector_median)
        stealer == calculate_stealer_factor(brand_tickets)
        reputational_factor == Rat(0, 1)
        base_penalty == BaseScore(kri1.weighted_score, benchmark_ratio)
        total_penalty_multiplier == RMul(RAdd(Rat(1, 1), stealer.factor),
                                         RAdd(Rat(1, 1), reputational_factor))
        final_penalty == RMul(base_penalty, total_penalty_multiplier)
        final_score == ClampedInt(final_penalty)
    IN  [brand_name |-> brand_name, score |-> final_score,
         grade |-> determine_grade(final_score)[1],
         total_incidents |-> kri1.total_count, weighted_score |-> kri1.weighted_score,
         stealer_count |-> stealer.count, breakdown |-> kri1.breakdown]

(***************************************************************************)
(* use_cases/risk_scoring/calculator_v4.py                                 *)
(***************************************************************************)
\* calculate_brand_risk_score: its calculate_weighted_incidents is called
\* with the module's default exclude_discarded = True
calculate_brand_risk_score(brand_name, tickets) ==
    LET kri1 == calculate_weighted_incidents(tickets, TRUE)
        sector_median == 100
        benchmark_ratio == BenchmarkRatio(kri1.total_count, sector_median)
        stealer == calculate_stealer_factor(tickets)
        reputational_factor == Rat(0, 1)
        base_score == BaseScore(kri1.weighted_score, benchmark_ratio)
        total_penalty == RMul(RAdd(Rat(1, 1), stealer.factor),
                              RAdd(Rat(1, 1), reputational_factor))
        final_score == ClampedInt(RMul(base_score, total_penalty))
        grade == determine_grade_v4(final_score)
    IN  [brand_name |-> brand_name, score |-> final_score,
         grade |-> grade[1], status |-> grade[2],
         total_incidents |-> kri1.total_count, weighted_score |-> kri1.weighted_score,
         benchmark_ratio |-> benchmark_ratio, stealer_factor |-> stealer.factor,
         reputational_factor |-> reputational_factor, breakdown |-> kri1.breakdown]

(***************************************************************************)
(* mainTest.py: the legacy 5-factor pipeline calculate_risk_score_v3.      *)
(***************************************************************************)
IncidentTypes ==
    {"ransomware-attack", "malware", "infostealer-credential", "phishing",
     "data-sale-message", "data-sale-website", "corporate-credential-leak",
     "database-exposure", "fake-social-media-profile", "fraudulent-brand-use",
     "similar-domain-name", "fake-mobile-app", "paid-search"}

INCIDENT_WEIGHTS(t) ==
    CASE t = "ransomware-attack" -> 100
      [] t = "malware" -> 80
      [] t = "infostealer-credential" -> 80
      [] t = "phishing" -> 50
      [] t = "data-sale-message" -> 40
      [] t = "data-sale-website" -> 40
      [] t = "corporate-credential-leak" -> 35
      [] t = "database-exposure" -> 35
      [] t = "fake-social-media-profile" -> 20
      [] t = "fraudulent-brand-use" -> 20
      [] t = "similar-domain-name" -> 15
      [] t = "fake-mobile-app" -> 30
      [] t = "paid-search" -> 10

\* INCIDENT_WEIGHTS.get(t_type, 10)
IncidentWeight(t) == IF t \in IncidentTypes THEN INCIDENT_WEIGHTS(t) ELSE 10

\* the tickets the loop of get_weighted_incidents processes
ProcessedTickets(tickets, brand_filter, exclude_discarded) ==
    SelectSeq(tickets, LAMBDA t :
        /\ ~(brand_filter # None /\ brand_filter \notin t.detection.assets)
        /\ ~(exclude_discarded /\ t.detection.resolution = "discarded"))

RECURSIVE WeightOfTickets(_)
WeightOfTickets(tickets) ==
    IF tickets = <<>> THEN 0
    ELSE IncidentWeight(Get(Head(tickets).detection.type, "unknown"))
         + WeightOfTickets(Tail(tickets))

\* get_weighted_incidents on the tickets get_incidents_for_period returned
get_weighted_incidents(tickets, brand_filter, exclude_discarded) ==
    LET processed == ProcessedTickets(tickets, brand_filter, exclude_discarded)
    IN  [weighted_score |-> WeightOfTickets(processed),
         total_incidents |-> Len(processed)]

\* the stealer band of calculate_risk_score_v3
V3StealerBand(stealer_count) ==
    IF stealer_count = 0 THEN Rat(0, 1)
    ELSE IF stealer_count <= 5 THEN Rat(2, 10)
    ELSE IF stealer_count <= 20 THEN Rat(5, 10)
    ELSE Rat(1, 1)

\* the reputational band of calculate_risk_score_v3
ReputationalBand(reputational_count) ==
    IF reputational_count = 0 THEN Rat(0, 1)
    ELSE IF reputational_count <= 10 THEN Rat(1, 10)
    ELSE IF reputational_count <= 50 THEN Rat(3, 10)
    ELSE Rat(1, 2)

\* the slow factor with the full penalty when there is no histogram
SlowFactorPenalised(slow_count, total_count) ==
    IF total_count > 0 THEN RMul(Rat(slow_count, total_count), Rat(1, 2)) ELSE Rat(1, 2)

\* slow_count / total_count * 0.5 when total_count > 0, else 0
SlowFactor(slow_count, total_count) ==
    IF total_count > 0 THEN RMul(Rat(slow_count, total_count), Rat(1, 2)) ELSE Rat(0, 1)

\* the share of the slow resolutions in place of the share of the others
EfficiencyPctOfSlow(slow_count, total_count) ==
    IF total_count > 0 THEN RMul(Rat(slow_count, total_count), Rat(100, 1)) ELSE Rat(100, 1)

\* ((total_count - slow_count) / total_count) * 100 when total_count > 0, else 100
EfficiencyPct(slow_count, total_count) ==
    IF total_count > 0
    THEN RMul(Rat(total_count - slow_count, total_count), Rat(100, 1))
    ELSE Rat(100, 1)

\* the locals of calculate_risk_score_v3 before its final calculation, from
\* the indicators k it gathered
V3Factors(k) ==
    LET ratio == BenchmarkRatio(k.total_incidents, k.sector_median)
    IN  [ratio |-> ratio,
         stealer_factor |-> V3StealerBand(k.stealer_count),
         slow_factor |-> SlowFactor(k.slow_count, k.total_count),
         efficiency_pct |-> EfficiencyPct(k.slow_count, k.total_count),
         reputational_factor |-> ReputationalBand(k.reputational_count),
         base_score |-> BaseScore(k.weighted_score, ratio)]

\* total_penalty_factor
V3Penalty(f) ==
    RMul(RMul(RAdd(Rat(1, 1), f.stealer_factor), RAdd(Rat(1, 1), f.slow_factor)),
         RAdd(Rat(1, 1), f.reputational_factor))

\* the penalised value with min(1000, ...) alone, without max(0, ...)
V3ClampedAbove(f) ==
    RMin(Rat(1000, 1), RSub(Rat(1000, 1), RMul(f.base_score, V3Penalty(f))))

\* max(0, min(1000, 1000 - base_score * total_penalty_factor)), still a float
V3Clamped(f) ==
    RMax(Rat(0, 1), RMin(Rat(1000, 1),
         RSub(Rat(1000, 1), RMul(f.base_score, V3Penalty(f)))))

\* whether every double operation of the final calculation is exact
V3Exact(f) ==
    /\ Dyadic(f.ratio) /\ Dyadic(f.stealer_factor) /\ Dyadic(f.slow_factor)
    /\ Dyadic(f.reputational_factor) /\ Dyadic(f.base_score)

\* final_score = int(final_score): the integers the run can return
V3FinalScores(f) == IntOfFloat(V3Clamped(f), V3Exact(f))

(***************************************************************************)
(* The API server.  It answers a request with an HTTP status, or the       *)
(* request fails in the transport (requests.exceptions.RequestException).  *)
(* A 200 answer to a list request carries the items of the page asked for  *)
(* under the endpoint's key; the same page asked again has the same items. *)
(***************************************************************************)
RequestException == "RequestException"

Statuses == {"200", "403", "429", "500"}

TICKETS == "/tickets-api/tickets"

CREDENTIALS == "/exposure-api/credentials"

CUSTOMERS == "/customers/customers"

Detection(format) == [leak_format |-> format]

\* the items a list endpoint holds and the key its JSON carries them under
ItemKinds(endpoint) ==
    IF endpoint = CREDENTIALS
    THEN {Detection("STEALER LOG"), Detection("COMBOLIST")}
    ELSE TicketKinds

BodyKey(endpoint) == IF endpoint = CREDENTIALS THEN "detections" ELSE "tickets"

VARIABLES
    entry,       \* the operation that runs, with its arguments
    pc,          \* where the run is
    call,        \* the arguments of the running fetch: endpoint, params, result_key
    page,        \* page of the pagination loop
    all_items,   \* all_items (all_tickets) of the pagination loop
    requests,    \* the requests of the running fetch so far, in order
    responses,   \* their responses, in order
    outcome,     \* what the client call gave its caller
    assets,      \* what get_customer_assets returned: brands, domain_to_brand
    kri,         \* the locals of calculate_risk_score_v3
    final_score, \* what calculate_risk_score_v3 returned: <<>> before it returns
    arg,         \* the argument of a function applied on its own
    result       \* its result: <<>> before it is applied

vars == <<entry, pc, call, page, all_items, requests, responses, outcome, assets, kri,
          final_score, arg, result>>

\* the most rounds a fetch from a server of MaxItems items can take: every
\* round but the last brings at least one item
RequestCap == MaxItems + 1

\* the page a request asks for: the value of its last page parameter
PageOf(request) ==
    LET ps == SelectSeq(request.params, LAMBDA kv : kv[1] = "page")
    IN  IF ps = <<>> THEN None ELSE ps[Len(ps)][2]

\* the requests answered with a page
ServedPages ==
    {i \in 1..Len(responses) :
        responses[i].status = "200" /\ requests[i].endpoint = call.endpoint}

ItemsServed ==
    LET firsts == {i \in ServedPages :
                      \A j \in ServedPages : PageOf(requests[j]) = PageOf(requests[i]) => j >= i}
        F[S \in SUBSET firsts] ==
            IF S = {} THEN 0
            ELSE LET i == CHOOSE x \in S : TRUE
                 IN  Len(responses[i].items) + F[S \ {i}]
    IN  F[firsts]

\* the answers the server can give to a list request for page p
ListResponses(endpoint, p) ==
    LET again == {i \in ServedPages : PageOf(requests[i]) = p}
        bodies == IF again # {}
                  THEN {responses[CHOOSE i \in again : TRUE].items}
                  ELSE SeqsUpTo(ItemKinds(endpoint), Min(PageSize, MaxItems - ItemsServed))
    IN  {[status |-> "200", key |-> BodyKey(endpoint), items |-> b] : b \in bodies}
        \cup {[status |-> st, key |-> None, items |-> <<>>] : st \in Statuses \ {"200"}}
        \cup {[status |-> RequestException, key |-> None, items |-> <<>>]}

\* data.get(result_key, [])
GetItems(response, result_key) ==
    IF response.key = result_key THEN response.items ELSE <<>>

(***************************************************************************)
(* core/axur_client.py                                                     *)
(***************************************************************************)
CUSTOMER_ID == "customer-1"

\* the datetimes of the period, as strftime("%Y-%m-%d") prints them
StartDate == "2026-10-03"

EndDate == "2026-11-02"

_format_date(dt, end_of_day) ==
    IF end_of_day THEN dt \o "T23:59:59" ELSE dt \o "T00:00:00"

\* the names get_tickets takes as keyword arguments
GetTicketsParameters == {"start_date", "end_date", "days_back", "originator", "ticket_type"}

\* the keyword arguments each caller passes to client.get_tickets
TicketKwargs(op) ==
    CASE op \in {"calculate_risk_score", "calculate_risk_score_per_brand"} ->
            [k \in {"start_date", "end_date", "date_field"} |->
                CASE k = "start_date" -> StartDate
                  [] k = "end_date" -> EndDate
                  [] k = "date_field" -> "incident.date"]
      [] op = "filter_by_origin" ->
            [k \in {"start_date", "end_date", "originator"} |->
                CASE k = "start_date" -> StartDate
                  [] k = "end_date" -> EndDate
                  [] k = "originator" -> "onepixel"]
      [] OTHER ->
            [k \in {"start_date", "end_date"} |->
                CASE k = "start_date" -> StartDate
                  [] k = "end_date" -> EndDate]

Kwarg(kwargs, name) == IF name \in DOMAIN kwargs THEN kwargs[name] ELSE None

\* get_tickets up to its call of _paginate: the arguments of that call, or
\* the TypeError Python raises for a keyword the method does not take
get_tickets(kwargs) ==
    IF ~(DOMAIN kwargs \subseteq GetTicketsParameters)
    THEN [raised |-> "TypeError", endpoint |-> None, params |-> <<>>, result_key |-> None]
    ELSE LET start_date == kwargs["start_date"]
             end_date == kwargs["end_date"]
             originator == Kwarg(kwargs, "originator")
             ticket_type == Kwarg(kwargs, "ticket_type")
             params == << <<"ticket.customer", CUSTOMER_ID>>,
                          <<"open.date", "ge:" \o _format_date(start_date, FALSE)>>,
                          <<"open.date", "le:" \o _format_date(end_date, TRUE)>>,
                          <<"pageSize", ToString(PageSize)>>,
                          <<"sortBy", "open.date">>,
                          <<"order", "desc">> >>
                       \o (IF originator # None
                           THEN << <<"ticket.creation.originator", originator>> >>
                           ELSE <<>>)
                       \o (IF ticket_type # None THEN << <<"type", ticket_type>> >> ELSE <<>>)
         IN  [raised |-> None, endpoint |-> TICKETS, params |-> params,
              result_key |-> "tickets"]

\* get_credentials up to its call of _paginate (days_back 30, no domain)
get_credentials ==
    [raised |-> None, endpoint |-> CREDENTIALS,
     params |-> << <<"customer", CUSTOMER_ID>>,
                   <<"status", "NEW,IN_TREATMENT">>,
                   <<"created", "ge:" \o StartDate>>,
                   <<"created", "le:" \o EndDate>>,
                   <<"pageSize", ToString(PageSize)>> >>,
     result_key |-> "credentials"]

\* the page left as it is
SamePage(p) == p

\* page += 1
NextPage(p) == p + 1

\* a full page taken for a short one
ShortOrFullPage(items) == Len(items) <= PageSize

\* len(items) < self.page_size
ShortPage(items) == Len(items) < PageSize

\* a round that ends the loop on a failed request and returns what it has
PaginateRoundLenient(items_so_far, p, r, result_key) ==
    IF r.status = "200" THEN
        LET items == GetItems(r, result_key)
        IN  IF items = <<>> \/ Len(items) < PageSize
            THEN [next |-> "return", all_items |-> items_so_far \o items, page |-> p,
                  error |-> None]
            ELSE [next |-> "loop", all_items |-> items_so_far \o items,
                  page |-> p + 1, error |-> None]
    ELSE [next |-> "return", all_items |-> items_so_far, page |-> p, error |-> None]

\* One round of the loop of _paginate on the response r: what the loop does
\* next ("loop", "return" or "raise") and its locals after the round.
PaginateRound(items_so_far, p, r, result_key) ==
    IF r.status = "200" THEN
        LET items == GetItems(r, result_key)
        IN  IF items = <<>>
            THEN [next |-> "return", all_items |-> items_so_far, page |-> p, error |-> None]
            ELSE IF ShortPage(items)
            THEN [next |-> "return", all_items |-> items_so_far \o items, page |-> p,
                  error |-> None]
            ELSE [next |-> "loop", all_items |-> items_so_far \o items,
                  page |-> NextPage(p), error |-> None]
    ELSE IF r.status = "429"
    THEN [next |-> "raise", all_items |-> items_so_far, page |-> p,
          error |-> "Exception: API rate limit exceeded. Please wait and try again."]
    ELSE IF r.status = RequestException
    THEN [next |-> "raise", all_items |-> items_so_far, page |-> p,
          error |-> "Exception: Network error"]
    ELSE [next |-> "raise", all_items |-> items_so_far, page |-> p,
          error |-> "Exception: API error " \o r.status]

\* the request of a round: current_params = params + [("page", str(page))]
PageRequest(endpoint, params, p) ==
    [endpoint |-> endpoint, params |-> params \o << <<"page", ToString(p)>> >>]

NoCall == [endpoint |-> None, params |-> <<>>, result_key |-> None]

NoOutcome == [kind |-> "none", items |-> <<>>, error |-> None]

\* client.get_tickets(...) or client.get_credentials(...) is entered: the
\* fetch that starts has its own requests, and of what get_customer_assets
\* returned calculate_all_brands_risk_score kept the brands (brands, _ = ...)
EnterClient ==
    /\ pc \in {"get_tickets", "get_credentials"}
    /\ LET c == IF pc = "get_tickets" THEN get_tickets(TicketKwargs(entry.op))
                ELSE get_credentials
       IN  IF c.raised # None
           THEN /\ pc' = "raised"
                /\ outcome' = [kind |-> "raised", items |-> <<>>, error |-> c.raised]
                /\ UNCHANGED <<call, page, all_items, requests, responses, assets>>
           ELSE /\ pc' = "_paginate"
                /\ call' = [endpoint |-> c.endpoint, params |-> c.params,
                            result_key |-> c.result_key]
                /\ page' = 1
                /\ all_items' = <<>>
                /\ requests' = <<>>
                /\ responses' = <<>>
                /\ assets' = [brands |-> assets.brands,
                              domain_to_brand |-> [d \in {} |-> None]]
                /\ UNCHANGED outcome
    /\ UNCHANGED <<entry, kri, final_score, arg, result>>

\* one round of the loop of _paginate
Paginate ==
    /\ pc = "_paginate"
    /\ Len(requests) < RequestCap
    /\ LET request == PageRequest(call.endpoint, call.params, page)
       IN  \E r \in ListResponses(call.endpoint, PageOf(request)) :
             LET round == PaginateRound(all_items, page, r, call.result_key)
             IN  /\ requests' = Append(requests, request)
                 /\ responses' = Append(responses, r)
                 /\ page' = round.page
                 /\ all_items' = round.all_items
                 /\ IF round.next = "loop"
                    THEN /\ pc' = "_paginate"
                         /\ UNCHANGED outcome
                    ELSE IF round.next = "return"
                    THEN /\ pc' = IF entry.op = "calculate_all_brands_risk_score"
                                   THEN "score_brands" ELSE "done"
                         /\ outcome' = [kind |-> "returned", items |-> round.all_items,
                                        error |-> None]
                    ELSE /\ pc' = "raised"
                         /\ outcome' = [kind |-> "raised", items |-> <<>>,
                                        error |-> round.error]
    /\ UNCHANGED <<entry, call, assets, kri, final_score, arg, result>>

(***************************************************************************)
(* mainTest.py: get_incidents_for_period and the run of                    *)
(* calculate_risk_score_v3 over the endpoints of its five indicators.      *)
(***************************************************************************)
\* params_list of get_incidents_for_period
LegacyParams ==
    << <<"ticket.customer", CUSTOMER_ID>>,
       <<"open.date", "ge:" \o StartDate \o "T00:00:00">>,
       <<"open.date", "le:" \o EndDate \o "T23:59:59">>,
       <<"pageSize", ToString(PageSize)>>,
       <<"sortBy", "open.date">>,
       <<"order", "desc">> >>

\* One round of the loop of get_incidents_for_period: a status other than
\* 200 is printed and ends the loop, an exception is printed after it; the
\* tickets gathered so far are returned in both cases.
LegacyRound(tickets_so_far, p, r) ==
    IF r.status = "200" THEN
        LET tickets == GetItems(r, "tickets")
        IN  IF tickets = <<>>
            THEN [next |-> "return", all_tickets |-> tickets_so_far, page |-> p,
                  printed |-> None]
            ELSE IF ShortPage(tickets)
            THEN [next |-> "return", all_tickets |-> tickets_so_far \o tickets, page |-> p,
                  printed |-> None]
            ELSE [next |-> "loop", all_tickets |-> tickets_so_far \o tickets,
                  page |-> NextPage(p), printed |-> None]
    ELSE IF r.status = RequestException
    THEN [next |-> "return", all_tickets |-> tickets_so_far, page |-> p,
          printed |-> "[Error] Obteniendo detalle de incidentes"]
    ELSE [next |-> "return", all_tickets |-> tickets_so_far, page |-> p,
          printed |-> "[Error] API Status " \o r.status]

NoKri ==
    [weighted_score |-> 0, total_incidents |-> 0, printed |-> None,
     sector_median |-> 0, stealer_count |-> 0, slow_count |-> 0, total_count |-> 0,
     reputational_count |-> 0, failed |-> {}]

\* get_incidents_for_period is entered
EnterLegacy ==
    /\ pc = "get_incidents_for_period"
    /\ pc' = "legacy_loop"
    /\ call' = [endpoint |-> TICKETS, params |-> LegacyParams, result_key |-> "tickets"]
    /\ page' = 1
    /\ all_items' = <<>>
    /\ UNCHANGED <<entry, requests, responses, outcome, assets, kri, final_score, arg,
                   result>>

\* One round of the loop of get_incidents_for_period.  When the loop ends,
\* get_weighted_incidents goes over the returned tickets and
\* calculate_risk_score_v3 goes on to its second indicator; the locals of
\* the fetch are gone.
LegacyFetch ==
    /\ pc = "legacy_loop"
    /\ Len(requests) < RequestCap
    /\ LET request == PageRequest(call.endpoint, call.params, page)
       IN  \E r \in ListResponses(call.endpoint, PageOf(request)) :
             LET round == LegacyRound(all_items, page, r)
                 kri1 == get_weighted_incidents(round.all_tickets, entry.brand_filter,
                                                entry.exclude_discarded)
             IN  IF round.next = "loop"
                 THEN /\ pc' = "legacy_loop"
                      /\ requests' = Append(requests, request)
                      /\ responses' = Append(responses, r)
                      /\ page' = round.page
                      /\ all_items' = round.all_tickets
                      /\ UNCHANGED <<call, kri>>
                 ELSE /\ pc' = "get_market_benchmark"
                      /\ kri' = [kri EXCEPT !.weighted_score = kri1.weighted_score,
                                            !.total_incidents = kri1.total_incidents,
                                            !.printed = round.printed]
                      /\ requests' = <<>>
                      /\ responses' = <<>>
                      /\ page' = 1
                      /\ all_items' = <<>>
                      /\ call' = NoCall
    /\ UNCHANGED <<entry, outcome, assets, final_score, arg, result>>

\* what the endpoints of the optional indicators can answer
AnyStatus == Statuses \cup {RequestException}

Medians == {0, 3}

StealerCounts == {0, 21}

Buckets ==
    {"lessThan1Day", "upTo2Days", "upTo5Days", "upTo10Days", "upTo15Days",
     "upTo30Days", "upTo60Days", "over60Days"}

Uptime(fast, slow30, slow60, slowOver) ==
    [b \in Buckets |->
        CASE b = "lessThan1Day" -> fast
          [] b = "upTo30Days" -> slow30
          [] b = "upTo60Days" -> slow60
          [] b = "over60Days" -> slowOver
          [] OTHER -> 0]

Uptimes == {Uptime(0, 0, 0, 0), Uptime(1, 0, 1, 0), Uptime(0, 1, 1, 1)}

Complaints == {0, 10, 51}

RECURSIVE SumBuckets(_, _)
SumBuckets(uptime_data, keys) ==
    IF keys = {} THEN 0
    ELSE LET k == CHOOSE x \in keys : TRUE
         IN  uptime_data[k] + SumBuckets(uptime_data, keys \ {k})

\* get_market_benchmark: the last median when the answer is 200, else 0
GetMarketBenchmark ==
    /\ pc = "get_market_benchmark"
    /\ \E st \in AnyStatus, median \in Medians :
          /\ st # "200" => median = 0
          /\ kri' = [kri EXCEPT !.sector_median = IF st = "200" THEN median ELSE 0,
                                !.failed = IF st = "200" THEN @ ELSE @ \cup {"benchmark"}]
    /\ pc' = "get_stealer_log_count"
    /\ UNCHANGED <<entry, call, page, all_items, requests, responses, outcome, assets,
                   final_score, arg, result>>

\* get_stealer_log_count: two requests; the stealer logs among the
\* detections of the second when both answer 200, else 0
GetStealerLogCount ==
    /\ pc = "get_stealer_log_count"
    /\ \E st1 \in AnyStatus, st2 \in AnyStatus, n \in StealerCounts :
          LET ok == st1 = "200" /\ st2 = "200"
          IN  /\ ~ok => n = 0 /\ (st1 # "200" => st2 = st1)
              /\ kri' = [kri EXCEPT !.stealer_count = IF ok THEN n ELSE 0,
                                    !.failed = IF ok THEN @ ELSE @ \cup {"stealer"}]
    /\ pc' = "get_operational_efficiency"
    /\ UNCHANGED <<entry, call, page, all_items, requests, responses, outcome, assets,
                   final_score, arg, result>>

\* get_operational_efficiency: the sums over the histogram when the answer
\* is 200, else 0 and 0
GetOperationalEfficiency ==
    /\ pc = "get_operational_efficiency"
    /\ \E st \in AnyStatus, uptime_data \in Uptimes :
          /\ st # "200" => uptime_data = Uptime(0, 0, 0, 0)
          /\ kri' = [kri EXCEPT
                !.total_count = IF st = "200" THEN SumBuckets(uptime_data, Buckets) ELSE 0,
                !.slow_count = IF st = "200"
                               THEN uptime_data["upTo30Days"] + uptime_data["upTo60Days"]
                                    + uptime_data["over60Days"]
                               ELSE 0,
                !.failed = IF st = "200" THEN @ ELSE @ \cup {"efficiency"}]
    /\ pc' = "get_web_complaints_count"
    /\ UNCHANGED <<entry, call, page, all_items, requests, responses, outcome, assets,
                   final_score, arg, result>>

\* get_web_complaints_count, then the final calculation of
\* calculate_risk_score_v3 and its return
GetWebComplaintsCount ==
    /\ pc = "get_web_complaints_count"
    /\ \E st \in AnyStatus, n \in Complaints :
          /\ st # "200" => n = 0
          /\ LET k == [kri EXCEPT !.reputational_count = IF st = "200" THEN n ELSE 0,
                                  !.failed = IF st = "200" THEN @ ELSE @ \cup {"reputational"}]
                 f == V3Factors(k)
             IN  /\ kri' = k
                 /\ \E score \in V3FinalScores(f) : final_score' = <<score>>
    /\ pc' = "done"
    /\ UNCHANGED <<entry, call, page, all_items, requests, responses, outcome, assets,
                   arg, result>>

(***************************************************************************)
(* core/axur_client.py: get_customer_assets.  Python strings that the      *)
(* program takes apart are read through Chars, their characters in order.  *)
(***************************************************************************)
\* assets of one customer that the server may answer with
MaxAssets == 2

Chars(s) ==
    CASE s = "shop.acme.com" -> <<"s", "h", "o", "p", ".", "a", "c", "m", "e", ".", "c", "o", "m">>
      [] s = "Acme.com" -> <<"A", "c", "m", "e", ".", "c", "o", "m">>
      [] s = "abc.org" -> <<"a", "b", "c", ".", "o", "r", "g">>
      [] s = "https://www.acme.com" ->
            <<"h", "t", "t", "p", "s", ":", "/", "/", "w", "w", "w", ".",
              "a", "c", "m", "e", ".", "c", "o", "m">>
      [] s = "https://shop.abc.org" ->
            <<"h", "t", "t", "p", "s", ":", "/", "/", "s", "h", "o", "p", ".",
              "a", "b", "c", ".", "o", "r", "g">>
      [] s = "https://abc.acme.org" ->
            <<"h", "t", "t", "p", "s", ":", "/", "/", "a", "b", "c", ".",
              "a", "c", "m", "e", ".", "o", "r", "g">>
      [] s = "" -> <<>>

\* str.lower(), on the characters in use
LowerChar(c) == IF c = "A" THEN "a" ELSE IF c = "T" THEN "t" ELSE c

Lower(cs) == [i \in 1..Len(cs) |-> LowerChar(cs[i])]

\* a in b, for strings
IsSubstring(a, b) ==
    \E i \in 0..(Len(b) - Len(a)) : \A j \in 1..Len(a) : b[i + j] = a[j]

\* s.split(".")[0]
BeforeFirstDot(cs) ==
    LET dots == {i \in 1..Len(cs) : cs[i] = "."}
    IN  IF dots = {} THEN cs
        ELSE SubSeq(cs, 1, (CHOOSE i \in dots : \A j \in dots : i <= j) - 1)

\* the match that prefers a brand whose site holds the whole domain
_match_domain_to_brand_exact_first(domain, brands) ==
    LET domain_lower == Lower(Chars(domain))
        domain_base == BeforeFirstDot(domain_lower)
        site(i) == Lower(Chars(Get(brands[i].official_website, "")))
        exact == {i \in 1..Len(brands) : IsSubstring(domain_lower, site(i))}
        loose == {i \in 1..Len(brands) :
                     IsSubstring(domain_base, site(i)) /\ Len(domain_base) > 3}
        first(S) == CHOOSE i \in S : \A j \in S : i <= j
    IN  IF exact # {} THEN brands[first(exact)].name
        ELSE IF loose # {} THEN brands[first(loose)].name
        ELSE None

RECURSIVE _match_domain_to_brand(_, _)
_match_domain_to_brand(domain, brands) ==
    LET domain_lower == Lower(Chars(domain))
        domain_base == BeforeFirstDot(domain_lower)
    IN  IF brands = <<>> THEN None
        ELSE LET brand == Head(brands)
                 official_site == Lower(Chars(Get(brand.official_website, "")))
             IN  IF IsSubstring(domain_lower, official_site) THEN brand.name
                 ELSE IF IsSubstring(domain_base, official_site) /\ Len(domain_base) > 3
                 THEN brand.name
                 ELSE _match_domain_to_brand(domain, Tail(brands))

\* an asset of the customer: active is "true", "false" or None (absent);
\* website is the value of its OFFICIAL_WEBSITE property, None without one
Asset(category, name, key, active, website) ==
    [category |-> category, name |-> name, key |-> key, active |-> active,
     website |-> website]

AssetKinds ==
    { Asset("BRAND", "BrandA", "brand-a-key", None, "https://www.acme.com"),
      Asset("BRAND", "BrandB", "brand-b-key", "true", "https://shop.abc.org"),
      Asset("BRAND", "BrandC", "brand-c-key", "false", None),
      Asset("DOMAIN", "shop.acme.com", "d1", "true", None),
      Asset("DOMAIN", "Acme.com", "d2", None, None),
      Asset("DOMAIN", "abc.org", "d3", "false", None),
      Asset("DOMAIN", "", "d4", "true", None) }

\* an asset counted as active only when its flag is there and true
IsActiveWhenFlagged(asset) == asset.active = "true"

\* asset.get("active", True)
IsActive(asset) == asset.active # "false"

\* the brands list after the loop over the assets
BrandsOf(asset_list) ==
    LET picked == SelectSeq(asset_list, LAMBDA a : a.category = "BRAND" /\ IsActive(a))
    IN  [i \in 1..Len(picked) |->
            [name |-> picked[i].name, key |-> picked[i].key,
             official_website |-> picked[i].website]]

\* the domains list after the loop over the assets
DomainsOf(asset_list) ==
    LET picked == SelectSeq(asset_list,
                            LAMBDA a : a.category = "DOMAIN" /\ IsActive(a) /\ a.name # "")
    IN  [i \in 1..Len(picked) |-> picked[i].name]

NoAssets == [brands |-> <<>>, domain_to_brand |-> [d \in {} |-> None]]

\* get_customer_assets on the response: found tells whether the answer
\* lists the customer, asset_list is that customer's assets
CustomerAssets(status, found, asset_list) ==
    IF status # "200" \/ ~found THEN NoAssets
    ELSE LET brands == BrandsOf(asset_list)
             domains == DomainsOf(asset_list)
         IN  [brands |-> brands,
              domain_to_brand |->
                 [d \in {domains[i] : i \in 1..Len(domains)} |->
                     _match_domain_to_brand(d, brands)]]

\* client.get_customer_assets(): one request; any failure gives the empty result
GetCustomerAssets ==
    /\ pc = "get_customer_assets"
    /\ \E st \in AnyStatus, found \in BOOLEAN, asset_list \in SeqsUpTo(AssetKinds, MaxAssets) :
          /\ (st # "200" \/ ~found) => asset_list = <<>>
          /\ st # "200" => found
          /\ requests' = Append(requests, [endpoint |-> CUSTOMERS, params |-> <<>>])
          /\ responses' = Append(responses, [status |-> st, key |-> None, items |-> asset_list])
          /\ assets' = CustomerAssets(st, found, asset_list)
    /\ IF entry.op \in {"calculate_risk_score_per_brand", "calculate_all_brands_risk_score"}
       THEN pc' = "get_tickets" /\ UNCHANGED outcome
       ELSE pc' = "done" /\ outcome' = [kind |-> "returned", items |-> <<>>, error |-> None]
    /\ UNCHANGED <<entry, call, page, all_items, kri, final_score, arg, result>>

\* the loop of calculate_all_brands_risk_score over the brands
RECURSIVE AllBrandsResults(_, _, _)
AllBrandsResults(brands, all_tickets, verbose) ==
    IF brands = <<>> THEN <<>>
    ELSE LET brand == Head(brands)
             brand_name == Get(brand.name, "Unknown")
             brand_tickets ==
                 SelectSeq(all_tickets, LAMBDA t : brand_name \in t.detection.assets)
             rest == AllBrandsResults(Tail(brands), all_tickets, verbose)
         IN  IF brand_tickets = <<>> /\ ~verbose
             THEN rest
             ELSE <<calculate_brand_risk_score(brand_name, brand_tickets)>> \o rest

\* calculate_all_brands_risk_score after its two fetches; verbose, which
\* until here decides only what is printed, is drawn here
ScoreBrands ==
    /\ pc = "score_brands"
    /\ \E verbose \in BOOLEAN :
          result' = <<[verbose |-> verbose,
                       results |-> AllBrandsResults(assets.brands, outcome.items, verbose)]>>
    /\ pc' = "done"
    /\ UNCHANGED <<entry, call, page, all_items, requests, responses, outcome, assets, kri,
                   final_score, arg>>

(***************************************************************************)
(* The runs.                                                               *)
(***************************************************************************)
Entries ==
    {[op |-> op, brand_filter |-> None, exclude_discarded |-> FALSE] :
        op \in {"calculate_risk_score", "calculate_risk_score_per_brand", "get_tickets",
                "filter_by_origin", "get_credentials", "get_customer_assets",
                "calculate_all_brands_risk_score"}}
    \cup {[op |-> "calculate_risk_score_v3", brand_filter |-> None,
            exclude_discarded |-> FALSE],
          [op |-> "calculate_risk_score_v3", brand_filter |-> "BrandA",
            exclude_discarded |-> TRUE]}

FirstPc(op) ==
    CASE op = "calculate_risk_score_v3" -> "get_incidents_for_period"
      [] op = "get_credentials" -> "get_credentials"
      [] op \in {"determine_grade", "determine_grade_v4"} -> "determine_grade"
      [] op \in {"RiskScore", "BrandRiskScore", "calculate_brand_risk_score",
                 "calculate_weighted_incidents", "get_weighted_incidents"} -> "score"
      [] op = "_match_domain_to_brand" -> "_match_domain_to_brand"
      [] op \in {"StealerBand", "V3StealerBand", "ReputationalBand"} -> "band"
      [] op = "get_operational_efficiency" -> "efficiency"
      [] op \in {"per_brand_loop", "all_brands_loop"} -> "brand_loop"
      [] op = "calculate_dread_score" -> "dread"
      [] op = "analyze_dread" -> "analyze_dread"
      [] op \in {"classify_stride", "stride_counts"} -> "classify_stride"
      [] op \in {"get_customer_assets", "calculate_risk_score_per_brand",
                 "calculate_all_brands_risk_score"} -> "get_customer_assets"
      [] OTHER -> "get_tickets"

\* the state before the run starts
Start(e) ==
    /\ entry = e
    /\ pc = FirstPc(e.op)
    /\ call = NoCall
    /\ page = 1
    /\ all_items = <<>>
    /\ requests = <<>>
    /\ responses = <<>>
    /\ outcome = NoOutcome
    /\ assets = NoAssets
    /\ kri = NoKri
    /\ final_score = <<>>

\* the run of an operation of the toolkit
RunInit ==
    /\ \E e \in Entries : Start(e)
    /\ arg = <<>>
    /\ result = <<>>

(***************************************************************************)
(* determine_grade applied to a score, and the scoring of the three        *)
(* 4-factor calculators applied to a list of tickets: arg is <<score>> or  *)
(* <<tickets>>, result is <<>> and then <<the value returned>>.            *)
(***************************************************************************)
GradeOps == {"determine_grade", "determine_grade_v4"}

GradeInit ==
    /\ \E op \in GradeOps :
          Start([op |-> op, brand_filter |-> None, exclude_discarded |-> FALSE])
    /\ \E score \in 0..1000 : arg = <<score>>
    /\ result = <<>>

Grade ==
    /\ pc = "determine_grade"
    /\ result' = IF entry.op = "determine_grade" THEN <<determine_grade(arg[1])>>
                 ELSE <<determine_grade_v4(arg[1])>>
    /\ pc' = "done"
    /\ UNCHANGED <<entry, call, page, all_items, requests, responses, outcome, assets, kri,
                   final_score, arg>>

ScoreOps == {"RiskScore", "BrandRiskScore", "calculate_brand_risk_score"}

ScoreEntries ==
    {[op |-> "RiskScore", brand_filter |-> None, exclude_discarded |-> FALSE],
     [op |-> "RiskScore", brand_filter |-> "BrandA", exclude_discarded |-> TRUE],
     [op |-> "BrandRiskScore", brand_filter |-> "BrandA", exclude_discarded |-> FALSE],
     [op |-> "calculate_brand_risk_score", brand_filter |-> "BrandA",
      exclude_discarded |-> TRUE]}

\* the two weighted-incident functions applied to a list of tickets
WeighOps == {"calculate_weighted_incidents", "get_weighted_incidents"}

WeighEntries ==
    {[op |-> op, brand_filter |-> None, exclude_discarded |-> x] :
        op \in WeighOps, x \in BOOLEAN}

ScoreInit ==
    /\ \E e \in ScoreEntries \cup WeighEntries : Start(e)
    /\ \E tickets \in SeqsUpTo(TicketKinds, MaxItems) : arg = <<tickets>>
    /\ result = <<>>

\* the largest number of equal tickets at the head of a long list
MaxBulk == 52

\* n times the ticket
Repeat(ticket, n) == [i \in 1..n |-> ticket]

\* the tickets of the long lists: the kinds of the server and a discarded
\* infostealer-credential ticket
BulkKinds == TicketKinds \cup {Ticket("infostealer-credential", {"BrandA"}, "discarded")}

\* long lists of tickets: up to MaxCount of one kind, then at most one other
BulkTickets ==
    {Repeat(a, k) \o rest :
        a \in {t \in BulkKinds : t.detection.type \in {"infostealer-credential",
                                                        "unknown-type"}},
        k \in 0..MaxBulk,
        rest \in {<<>>} \cup {<<b>> : b \in BulkKinds}}

\* the 4-factor calculators applied to a long list of tickets
BulkInit ==
    /\ \E e \in ScoreEntries : Start(e)
    /\ \E tickets \in BulkTickets : arg = <<tickets>>
    /\ result = <<>>

Score ==
    /\ pc = "score"
    /\ result' =
          CASE entry.op = "RiskScore" ->
                  <<RiskScore(arg[1], entry.brand_filter, entry.exclude_discarded)>>
            [] entry.op = "BrandRiskScore" ->
                  <<BrandRiskScore(entry.brand_filter, arg[1])>>
            [] entry.op = "calculate_brand_risk_score" ->
                  <<calculate_brand_risk_score(entry.brand_filter, arg[1])>>
            [] entry.op = "calculate_weighted_incidents" ->
                  <<calculate_weighted_incidents(arg[1], entry.exclude_discarded)>>
            [] entry.op = "get_weighted_incidents" ->
                  <<get_weighted_incidents(arg[1], entry.brand_filter,
                                           entry.exclude_discarded)>>
    /\ pc' = "done"
    /\ UNCHANGED <<entry, call, page, all_items, requests, responses, outcome, assets, kri,
                   final_score, arg>>

(***************************************************************************)
(* _match_domain_to_brand applied to a domain and a list of brands: arg   *)
(* is <<domain, brands>>.                                                  *)
(***************************************************************************)
\* brands in the list handed to the match
MaxBrands == 2

BrandInfo(name, key, official_website) ==
    [name |-> name, key |-> key, official_website |-> official_website]

BrandKinds ==
    { BrandInfo("BrandA", "brand-a-key", "https://www.acme.com"),
      BrandInfo("BrandB", "brand-b-key", "https://shop.abc.org"),
      BrandInfo("BrandC", "brand-c-key", None),
      BrandInfo("BrandD", "brand-d-key", "https://abc.acme.org") }

DomainKinds == {"shop.acme.com", "Acme.com", "abc.org", ""}

MatchInit ==
    /\ Start([op |-> "_match_domain_to_brand", brand_filter |-> None,
              exclude_discarded |-> FALSE])
    /\ \E domain \in DomainKinds, brands \in SeqsUpTo(BrandKinds, MaxBrands) :
          arg = <<domain, brands>>
    /\ result = <<>>

Match ==
    /\ pc = "_match_domain_to_brand"
    /\ result' = <<_match_domain_to_brand(arg[1], arg[2])>>
    /\ pc' = "done"
    /\ UNCHANGED <<entry, call, page, all_items, requests, responses, outcome, assets, kri,
                   final_score, arg>>

(***************************************************************************)
(* The banding functions applied to a count (arg is <<count>>), and the   *)
(* efficiency indicator applied to a histogram (arg is <<uptime_data>>).   *)
(***************************************************************************)
\* the largest count handed to a banding function
MaxCount == 52

\* the largest count in a bucket of the histogram
MaxBucket == 1

BandOps == {"StealerBand", "V3StealerBand", "ReputationalBand"}

BandInit ==
    /\ \E op \in BandOps :
          Start([op |-> op, brand_filter |-> None, exclude_discarded |-> FALSE])
    /\ \E count \in 0..MaxCount : arg = <<count>>
    /\ result = <<>>

Band ==
    /\ pc = "band"
    /\ result' = CASE entry.op = "StealerBand" -> <<StealerBand(arg[1])>>
                   [] entry.op = "V3StealerBand" -> <<V3StealerBand(arg[1])>>
                   [] entry.op = "ReputationalBand" -> <<ReputationalBand(arg[1])>>
    /\ pc' = "done"
    /\ UNCHANGED <<entry, call, page, all_items, requests, responses, outcome, assets, kri,
                   final_score, arg>>

\* the sums of get_operational_efficiency over the histogram and the two
\* values calculate_risk_score_v3 derives from them
OperationalEfficiency(uptime_data) ==
    LET total_count == SumBuckets(uptime_data, Buckets)
        slow_count == uptime_data["upTo30Days"] + uptime_data["upTo60Days"]
                      + uptime_data["over60Days"]
    IN  [total_count |-> total_count, slow_count |-> slow_count,
         slow_factor |-> SlowFactor(slow_count, total_count),
         efficiency_pct |-> EfficiencyPct(slow_count, total_count)]

EfficiencyInit ==
    /\ Start([op |-> "get_operational_efficiency", brand_filter |-> None,
              exclude_discarded |-> FALSE])
    /\ \E uptime_data \in [Buckets -> 0..MaxBucket] : arg = <<uptime_data>>
    /\ result = <<>>

Efficiency ==
    /\ pc = "efficiency"
    /\ result' = <<OperationalEfficiency(arg[1])>>
    /\ pc' = "done"
    /\ UNCHANGED <<entry, call, page, all_items, requests, responses, outcome, assets, kri,
                   final_score, arg>>

(***************************************************************************)
(* mainTest.py: calculate_dread_score applied to a ticket (arg is          *)
(* <<ticket>>).                                                            *)
(***************************************************************************)
\* the characters of the ticket types, the collectors and the words the
\* function looks for in them
DreadChars(s) ==
    CASE s = "phishing" ->
            <<"p", "h", "i", "s", "h", "i", "n", "g">>
      [] s = "infostealer-credential" ->
            <<"i", "n", "f", "o", "s", "t", "e", "a", "l", "e", "r", "-", "c", "r", "e", "d", "e", "n", "t", "i", "a", "l">>
      [] s = "executive-credential-leak" ->
            <<"e", "x", "e", "c", "u", "t", "i", "v", "e", "-", "c", "r", "e", "d", "e", "n", "t", "i", "a", "l", "-", "l", "e", "a", "k">>
      [] s = "ransomware-attack" ->
            <<"r", "a", "n", "s", "o", "m", "w", "a", "r", "e", "-", "a", "t", "t", "a", "c", "k">>
      [] s = "unknown" ->
            <<"u", "n", "k", "n", "o", "w", "n">>
      [] s = "executive" ->
            <<"e", "x", "e", "c", "u", "t", "i", "v", "e">>
      [] s = "credential" ->
            <<"c", "r", "e", "d", "e", "n", "t", "i", "a", "l">>
      [] s = "telegram" ->
            <<"t", "e", "l", "e", "g", "r", "a", "m">>
      [] s = "twitter" ->
            <<"t", "w", "i", "t", "t", "e", "r">>
      [] s = "deep" ->
            <<"d", "e", "e", "p">>
      [] s = "dark" ->
            <<"d", "a", "r", "k">>
      [] s = "Telegram" ->
            <<"T", "e", "l", "e", "g", "r", "a", "m">>
      [] s = "deep-web" ->
            <<"d", "e", "e", "p", "-", "w", "e", "b">>
      [] s = "rss" ->
            <<"r", "s", "s">>
      [] s = "" -> <<>>

\* word in s
Holds(s, word) == IsSubstring(DreadChars(word), s)

DreadTicket(type, criticality, collector, risk) ==
    [detection |-> [type |-> type, criticality |-> criticality, prediction_risk |-> risk],
     ticket |-> [creation_collector |-> collector]]

\* the tickets the function is applied to: prediction.risk in hundredths,
\* <<>> when the ticket has none
DreadKinds ==
    {DreadTicket(type, criticality, collector, risk) :
        type \in {"phishing", "infostealer-credential", "executive-credential-leak",
                  "ransomware-attack", None},
        criticality \in {"high", "medium", "low", "critical", None},
        collector \in {"Telegram", "deep-web", "rss", None},
        risk \in {Rat(n, 100) : n \in {0, 4, 9, 10, 57, 99, 100}} \cup {<<>>}}

DreadTypes ==
    {"phishing", "fake-social-media-profile", "similar-domain-name", "malware",
     "ransomware-attack", "corporate-credential-leak", "infostealer-credential"}

DREAD_REPRODUCIBILITY(t) ==
    CASE t = "phishing" -> 9
      [] t = "fake-social-media-profile" -> 8
      [] t = "similar-domain-name" -> 7
      [] t = "malware" -> 6
      [] t = "ransomware-attack" -> 5
      [] t = "corporate-credential-leak" -> 4
      [] t = "infostealer-credential" -> 8

\* round(q, 1) for q >= 0, in tenths
Round1(q) == Rat(RFloor(RAdd(RMul(q, Rat(10, 1)), Rat(1, 2))), 10)

calculate_dread_score(ticket) ==
    LET ticket_type == Get(ticket.detection.type, "unknown")
        criticality == Get(ticket.detection.criticality, "medium")
        collector == Lower(DreadChars(Get(ticket.ticket.creation_collector, "")))
        prediction_risk == IF ticket.detection.prediction_risk = <<>> THEN Rat(1, 2)
                           ELSE ticket.detection.prediction_risk
        type_chars == DreadChars(ticket_type)
        D == CASE criticality = "high" -> 9
               [] criticality = "medium" -> 6
               [] criticality = "low" -> 3
               [] OTHER -> 5
        R == IF ticket_type \in DreadTypes THEN DREAD_REPRODUCIBILITY(ticket_type) ELSE 5
        E == RTrunc(RMul(prediction_risk, Rat(10, 1)))
        A == IF Holds(type_chars, "executive") THEN 9
             ELSE IF Holds(type_chars, "credential") THEN 7
             ELSE IF Holds(type_chars, "phishing") THEN 6
             ELSE 4
        D2 == IF Holds(collector, "telegram") \/ Holds(collector, "twitter") THEN 9
              ELSE IF Holds(collector, "deep") \/ Holds(collector, "dark") THEN 4
              ELSE 6
        dread_score == Rat(D + R + E + A + D2, 5)
    IN  [score |-> Round1(dread_score),
         components |-> [D |-> D, R |-> R, E |-> E, A |-> A, D2 |-> D2],
         type |-> ticket_type, criticality |-> criticality]

DreadInit ==
    /\ Start([op |-> "calculate_dread_score", brand_filter |-> None,
              exclude_discarded |-> FALSE])
    /\ \E ticket \in DreadKinds : arg = <<ticket>>
    /\ result = <<>>

Dread ==
    /\ pc = "dread"
    /\ result' = <<calculate_dread_score(arg[1])>>
    /\ pc' = "done"
    /\ UNCHANGED <<entry, call, page, all_items, requests, responses, outcome, assets, kri,
                   final_score, arg>>

(***************************************************************************)
(* use_cases/executive_reports/generator.py: analyze_dread after its       *)
(* fetch, applied to the tickets fetched and a limit (arg is <<tickets,    *)
(* limit>>).                                                               *)
(***************************************************************************)
\* the longest batch of tickets handed to a report
MaxBatch == 3

DreadWeightTypes ==
    {"phishing", "ransomware-attack", "infostealer-credential", "corporate-credential-leak",
     "malware", "fake-mobile-app", "similar-domain-name", "fraudulent-brand-use"}

DreadFactors(damage, reproducibility, exploitability, affected_users, discoverability) ==
    [damage |-> damage, reproducibility |-> reproducibility,
     exploitability |-> exploitability, affected_users |-> affected_users,
     discoverability |-> discoverability]

DREAD_WEIGHTS(t) ==
    CASE t = "phishing" -> DreadFactors(7, 9, 8, 8, 9)
      [] t = "ransomware-attack" -> DreadFactors(10, 5, 4, 9, 3)
      [] t = "infostealer-credential" -> DreadFactors(9, 8, 7, 6, 4)
      [] t = "corporate-credential-leak" -> DreadFactors(8, 4, 6, 7, 5)
      [] t = "malware" -> DreadFactors(8, 6, 5, 7, 4)
      [] t = "fake-mobile-app" -> DreadFactors(6, 7, 6, 5, 8)
      [] t = "similar-domain-name" -> DreadFactors(4, 7, 5, 3, 8)
      [] t = "fraudulent-brand-use" -> DreadFactors(5, 6, 4, 4, 7)

DEFAULT_DREAD == DreadFactors(5, 5, 5, 5, 5)

\* calculate_dread_score of generator.py: the DreadResult of a ticket
DreadResult(ticket) ==
    LET ticket_type == Get(ticket.detection.type, "unknown")
        weights == IF ticket_type \in DreadWeightTypes THEN DREAD_WEIGHTS(ticket_type)
                   ELSE DEFAULT_DREAD
        total == weights.damage + weights.reproducibility + weights.exploitability
                 + weights.affected_users + weights.discoverability
    IN  [ticket_type |-> ticket_type, total_score |-> total,
         damage |-> weights.damage, reproducibility |-> weights.reproducibility,
         exploitability |-> weights.exploitability,
         affected_users |-> weights.affected_users,
         discoverability |-> weights.discoverability,
         priority |-> IF total >= 40 THEN "Critical"
                      ELSE IF total >= 30 THEN "High"
                      ELSE IF total >= 20 THEN "Medium"
                      ELSE "Low"]

\* tickets[:limit] for a limit >= 0
UpTo(tickets, limit) == SubSeq(tickets, 1, Min(limit, Len(tickets)))

\* sorted(results, key, reverse=True): a stable sort, the larger key first
\* and equal keys in the order they had; the key is the field named
RECURSIVE SortedReverse(_, _)
SortedReverse(results, key) ==
    IF results = <<>> THEN <<>>
    ELSE LET n == Len(results)
             last == results[n]
             front == SortedReverse(SubSeq(results, 1, n - 1), key)
             before == SelectSeq(front, LAMBDA x : x[key] >= last[key])
             after == SelectSeq(front, LAMBDA x : x[key] < last[key])
         IN  before \o <<last>> \o after

analyze_dread(fetched, limit) ==
    LET tickets == IF limit # 0 THEN UpTo(fetched, limit) ELSE fetched
        results == [i \in 1..Len(tickets) |-> DreadResult(tickets[i])]
    IN  SortedReverse(results, "total_score")

AnalyzeInit ==
    /\ Start([op |-> "analyze_dread", brand_filter |-> None, exclude_discarded |-> FALSE])
    /\ \E tickets \in SeqsUpTo(TicketKinds, MaxBatch), limit \in 0..(MaxBatch + 1) :
          arg = <<tickets, limit>>
    /\ result = <<>>

Analyze ==
    /\ pc = "analyze_dread"
    /\ result' = <<analyze_dread(arg[1], arg[2])>>
    /\ pc' = "done"
    /\ UNCHANGED <<entry, call, page, all_items, requests, responses, outcome, assets, kri,
                   final_score, arg>>

(***************************************************************************)
(* use_cases/executive_reports/generator.py: classify_stride after its     *)
(* fetch, applied to the tickets fetched (arg is <<tickets>>).  A          *)
(* percentage is the double count / total * 100: the exact value           *)
(* 100 * count / total and the error the two roundings (of the division,   *)
(* of the product) leave, as the integer error in units of                 *)
(* 1 / (total * 2^scale).                                                  *)
(***************************************************************************)
\* x mod m, in 0..m-1 for a negative x too
Mod(x, m) == ((x % m) + m) % m

RECURSIVE PowMod(_, _, _)
PowMod(b, k, m) == IF k = 0 THEN 1 % m ELSE (b * PowMod(b, k - 1, m)) % m

RECURSIVE Pow2(_)
Pow2(k) == IF k <= 0 THEN 1 ELSE 2 * Pow2(k - 1)

\* the exponent of the binade of n/d > 0: the largest p with 2^p <= n/d
RECURSIVE Log2Floor(_, _)
Log2Floor(n, d) ==
    IF n >= d THEN (IF n < 2 * d THEN 0 ELSE 1 + Log2Floor(n, 2 * d))
    ELSE Log2Floor(2 * n, d) - 1

\* (a * 2^k + b) mod m
Rem(a, k, b, m) == Mod(a * PowMod(2, k, m) + b, m)

\* round-to-nearest, ties to even: what is added to a quotient whose
\* remainder modulo m is r, odd telling whether its integer part is odd
NearestOffset(r, m, odd) ==
    IF 2 * r < m THEN -r
    ELSE IF 2 * r > m THEN m - r
    ELSE IF odd THEN m - r ELSE -r

\* the double count / total * 100 for 0 < count <= total
Percentage(count, total) ==
    LET p1 == Log2Floor(count, total)
        k == 52 - p1
        r1 == Rem(count, k, 0, total)
        odd1 == ((Rem(count, k, 0, 2 * total) - r1) \div total) % 2 = 1
        e1 == NearestOffset(r1, total, odd1)
        j == Log2Floor(100 * count, total)
        p2 == IF j >= 0 /\ 100 * count = total * Pow2(j) /\ e1 < 0 THEN j - 1 ELSE j
        m2 == total * Pow2(p2 - p1)
        r2 == Rem(100 * count, k, 100 * e1, m2)
        odd2 == ((Rem(100 * count, k, 100 * e1, 2 * m2) - r2) \div m2) % 2 = 1
        e2 == NearestOffset(r2, m2, odd2)
    IN  [exact |-> RNorm(Rat(100 * count, total)), error |-> 100 * e1 + e2, scale |-> k]

StrideTypes ==
    {"phishing", "fake-social-media-profile", "executive-fake-social-media-profile",
     "similar-domain-name", "fraudulent-brand-use", "fake-mobile-app",
     "unauthorized-sale", "unauthorized-distribution", "corporate-credential-leak",
     "code-secret-leak", "database-exposure", "data-exposure-website",
     "data-exposure-message", "other-sensitive-data", "executive-credential-leak",
     "executive-personalinfo-leak", "ransomware-attack", "infrastructure-exposure",
     "malware", "infostealer-credential", "executive-card-leak", "executive-mobile-phone"}

STRIDE_MAPPING(t) ==
    CASE t \in {"phishing", "fake-social-media-profile",
                "executive-fake-social-media-profile", "similar-domain-name"} -> "S"
      [] t \in {"fraudulent-brand-use", "fake-mobile-app"} -> "T"
      [] t \in {"unauthorized-sale", "unauthorized-distribution"} -> "R"
      [] t \in {"corporate-credential-leak", "code-secret-leak", "database-exposure",
                "data-exposure-website", "data-exposure-message", "other-sensitive-data",
                "executive-credential-leak", "executive-personalinfo-leak"} -> "I"
      [] t \in {"ransomware-attack", "infrastructure-exposure", "malware"} -> "D"
      [] t \in {"infostealer-credential", "executive-card-leak",
                "executive-mobile-phone"} -> "E"

\* the keys of STRIDE_NAMES, in the order of the dict
STRIDE_NAMES == <<"S", "T", "R", "I", "D", "E">>

\* STRIDE_MAPPING.get(ticket_type, "I")
StrideCategory(ticket_type) ==
    IF ticket_type \in StrideTypes THEN STRIDE_MAPPING(ticket_type) ELSE "I"

classify_stride(tickets) ==
    LET TypeAt(i) == Get(tickets[i].detection.type, "unknown")
        members(cat) == {i \in 1..Len(tickets) : StrideCategory(TypeAt(i)) = cat}
        total == Len(tickets)
        filled == SelectSeq(STRIDE_NAMES, LAMBDA cat : Cardinality(members(cat)) > 0)
        results == [n \in 1..Len(filled) |->
                       LET count == Cardinality(members(filled[n]))
                       IN  [category |-> filled[n], count |-> count,
                            percentage |-> Percentage(count, total),
                            threat_types |-> {TypeAt(i) : i \in members(filled[n])}]]
    IN  SortedReverse(results, "count")

\* classify_stride of mainTest.py after its fetch: the dict stride_counts it
\* returns, {} when there are no tickets
stride_counts(tickets) ==
    LET TypeAt(i) == Get(tickets[i].detection.type, "unknown")
        category(i) == IF TypeAt(i) \in StrideTypes THEN STRIDE_MAPPING(TypeAt(i)) ELSE "?"
    IN  IF tickets = <<>> THEN [cat \in {} |-> 0]
        ELSE [cat \in {"S", "T", "R", "I", "D", "E", "?"} |->
                 Cardinality({i \in 1..Len(tickets) : category(i) = cat})]

StrideOps == {"classify_stride", "stride_counts"}

StrideInit ==
    /\ \E op \in StrideOps :
          Start([op |-> op, brand_filter |-> None, exclude_discarded |-> FALSE])
    /\ \E tickets \in SeqsUpTo(TicketKinds, MaxBatch) : arg = <<tickets>>
    /\ result = <<>>

Stride ==
    /\ pc = "classify_stride"
    /\ result' = IF entry.op = "classify_stride" THEN <<classify_stride(arg[1])>>
                  ELSE <<stride_counts(arg[1])>>
    /\ pc' = "done"
    /\ UNCHANGED <<entry, call, page, all_items, requests, responses, outcome, assets, kri,
                   final_score, arg>>

(***************************************************************************)
(* The loops over the brands of calculate_risk_score_per_brand and of      *)
(* calculate_all_brands_risk_score, one round at a time, with the dicts    *)
(* the rounds create kept in a heap: arg is <<brands, all_tickets,         *)
(* verbose>> as fetched, result is <<the locals of the loop>>.             *)
(***************************************************************************)
\* the longest list of tickets the loops share
MaxShared == 2

LoopOps == {"per_brand_loop", "all_brands_loop"}

LoopBrands == {b \in BrandKinds : b.name \in {"BrandA", "BrandB"}}

\* one dict for every call, whatever the heap holds
SharedBreakdown(heap) == 1

\* breakdown = {} in calculate_weighted_incidents: a dict no one else holds
NewBreakdown(heap) == Len(heap) + 1

\* the heap after the dict at ref is bound to value
Store(heap, ref, value) ==
    [k \in DOMAIN heap \cup {ref} |-> IF k = ref THEN value ELSE heap[k]]

\* brand_tickets of calculate_risk_score_per_brand
PerBrandTickets(all_tickets, brand_name, brand_key) ==
    SelectSeq(all_tickets,
              LAMBDA t : \/ brand_name \in t.detection.assets
                         \/ (brand_key \notin {None, ""} /\ brand_key \in t.detection.assets))

\* brand_tickets of calculate_all_brands_risk_score
AllBrandsTickets(all_tickets, brand_name) ==
    SelectSeq(all_tickets, LAMBDA t : brand_name \in t.detection.assets)

LoopInit ==
    /\ \E op \in LoopOps :
          Start([op |-> op, brand_filter |-> None, exclude_discarded |-> FALSE])
    /\ \E brands \in SeqsUpTo(LoopBrands, MaxBrands),
          all_tickets \in SeqsUpTo(TicketKinds, MaxShared),
          verbose \in BOOLEAN :
          /\ entry.op = "per_brand_loop" => verbose
          /\ arg = <<brands, all_tickets, verbose>>
          /\ result = <<[brands |-> brands, all_tickets |-> all_tickets, next |-> 1,
                         results |-> <<>>, heap |-> <<>>]>>

\* one round of for brand in brands; the loop ends when the list is used up
BrandRound ==
    /\ pc = "brand_loop"
    /\ LET l == result[1]
           verbose == arg[3]
       IN  IF l.next > Len(l.brands)
           THEN pc' = "done" /\ UNCHANGED result
           ELSE LET brand == l.brands[l.next]
                    brand_tickets ==
                        IF entry.op = "per_brand_loop"
                        THEN PerBrandTickets(l.all_tickets, brand.name, brand.key)
                        ELSE AllBrandsTickets(l.all_tickets, Get(brand.name, "Unknown"))
                    scored == IF entry.op = "per_brand_loop"
                              THEN BrandRiskScore(brand.name, brand_tickets)
                              ELSE calculate_brand_risk_score(Get(brand.name, "Unknown"),
                                                              brand_tickets)
                    ref == NewBreakdown(l.heap)
                IN  /\ pc' = "brand_loop"
                    /\ IF entry.op = "all_brands_loop" /\ brand_tickets = <<>> /\ ~verbose
                       THEN result' = <<[l EXCEPT !.next = @ + 1]>>
                       ELSE result' =
                               <<[l EXCEPT !.next = @ + 1,
                                           !.heap = Store(@, ref, scored.breakdown),
                                           !.results =
                                               Append(@, [scored EXCEPT !.breakdown = ref])]>>
    /\ UNCHANGED <<entry, call, page, all_items, requests, responses, outcome, assets, kri,
                   final_score, arg>>

Init ==
    \/ RunInit \/ GradeInit \/ ScoreInit \/ MatchInit \/ BandInit \/ EfficiencyInit
    \/ LoopInit \/ DreadInit \/ AnalyzeInit \/ StrideInit \/ BulkInit

Next ==
    \/ EnterClient
    \/ Paginate
    \/ GetCustomerAssets
    \/ ScoreBrands
    \/ EnterLegacy
    \/ LegacyFetch
    \/ GetMarketBenchmark
    \/ GetStealerLogCount
    \/ GetOperationalEfficiency
    \/ GetWebComplaintsCount
    \/ Grade
    \/ Score
    \/ Match
    \/ Band
    \/ Efficiency
    \/ BrandRound
    \/ Dread
    \/ Analyze
    \/ Stride

Spec == Init /\ [][Next]_vars

(***************************************************************************)
(* The fetches alone, with the fairness of sequential code: a loop that    *)
(* can take its next round takes it (the server answers every request).    *)
(***************************************************************************)
FetchOps ==
    {"get_tickets", "filter_by_origin", "get_credentials", "calculate_risk_score_v3"}

FetchInit ==
    /\ \E e \in Entries : e.op \in FetchOps /\ Start(e)
    /\ arg = <<>>
    /\ result = <<>>

FetchNext ==
    \/ EnterClient
    \/ Paginate
    \/ EnterLegacy
    \/ LegacyFetch

FairFetchSpec ==
    FetchInit /\ [][FetchNext]_vars /\ WF_vars(Paginate) /\ WF_vars(LegacyFetch)

(***************************************************************************)
(* Properties of the scores.                                               *)
(***************************************************************************)
V3 == "calculate_risk_score_v3"

\* a scoring run has returned its score
Scored == pc = "done" /\ entry.op \in ScoreOps \cup {V3}

\* the score it returned
ReturnedScore == IF entry.op = V3 THEN final_score[1] ELSE result[1].score

\* C1: every score a scoring function returns (the three 4-factor calculators
\* on any ticket list, calculate_risk_score_v3 on any run of its five
\* indicators) is an integer from 0 to 1000
C1_ScoreInRange ==
    Scored => /\ entry.op = V3 => Len(final_score) = 1
              /\ ReturnedScore \in 0..1000

\* a run of calculate_risk_score_v3 whose penalty exceeds 1000 returned 0
C1_Witness ==
    /\ Scored /\ entry.op = V3 /\ final_score = <<0>>
    /\ LET f == V3Factors(kri)
       IN  RLess(Rat(1000, 1), RMul(f.base_score, V3Penalty(f)))

\* 1000 - base * penaltyMult, with base = min(500, weightedScore /
\* max(benchmarkRatio, 0.5)) and penaltyMult = (1 + stealerFactor) *
\* (1 + slowFactor) * (1 + reputationalFactor)
Unrounded(weightedScore, benchmarkRatio, stealerFactor, slowFactor, reputationalFactor) ==
    LET base == RMin(Rat(500, 1),
                     RDiv(RInt(weightedScore), RMax(benchmarkRatio, Rat(1, 2))))
        penaltyMult == RMul(RMul(RAdd(Rat(1, 1), stealerFactor),
                                 RAdd(Rat(1, 1), slowFactor)),
                            RAdd(Rat(1, 1), reputationalFactor))
    IN  RSub(Rat(1000, 1), RMul(base, penaltyMult))

\* the unrounded value of the scoring run that has returned
RunUnrounded ==
    CASE entry.op = V3 ->
            LET f == V3Factors(kri)
            IN  Unrounded(kri.weighted_score, f.ratio, f.stealer_factor, f.slow_factor,
                          f.reputational_factor)
      [] entry.op = "BrandRiskScore" ->
            LET r == result[1]
            IN  Unrounded(r.weighted_score, BenchmarkRatio(r.total_incidents, 50),
                          StealerBand(r.stealer_count), Rat(0, 1), Rat(0, 1))
      [] OTHER ->
            LET r == result[1]
            IN  Unrounded(r.weighted_score, r.benchmark_ratio, r.stealer_factor, Rat(0, 1),
                          r.reputational_factor)

Clamp(lo, hi, n) == Max(lo, Min(hi, n))

\* the integers nearest to q (two of them when q is halfway)
Nearest(q) ==
    {n \in {RFloor(q), RFloor(q) + 1} : 2 * Abs(n * q[2] - q[1]) <= q[2]}

\* C2 as stated: when the unrounded value has a fractional part, the returned
\* score is clamp(0, 1000, its nearest integer)
C2_RoundedScore ==
    (Scored /\ ~RIsInt(RunUnrounded)) =>
        \E n \in Nearest(RunUnrounded) : ReturnedScore = Clamp(0, 1000, n)

\* C2: when the unrounded value 1000 - base * penaltyMult has a fractional
\* part, the returned score is clamp(0, 1000, the value truncated toward
\* zero); the 4-factor calculators return the clamped truncation of every value
C2_TruncatedScore ==
    /\ (Scored /\ ~RIsInt(RunUnrounded)) =>
          ReturnedScore = Clamp(0, 1000, RTrunc(RunUnrounded))
    /\ (Scored /\ entry.op \in ScoreOps) =>
          ReturnedScore = Clamp(0, 1000, RTrunc(RunUnrounded))

\* a run returned a score below the nearest integer of its unrounded value
C2_Witness ==
    /\ Scored /\ entry.op = V3
    /\ ~RIsInt(RunUnrounded)
    /\ RLess(Rat(0, 1), RunUnrounded)
    /\ Nearest(RunUnrounded) = {RFloor(RunUnrounded) + 1}
    /\ ReturnedScore = RFloor(RunUnrounded)

(***************************************************************************)
(* Properties of the grades.                                               *)
(***************************************************************************)
GradeOf(op, score) ==
    IF op = "determine_grade" THEN determine_grade(score) ELSE determine_grade_v4(score)

\* the grades whose band holds the score
Bands(score) ==
    {g \in {"A", "B", "C", "D", "F"} :
        \/ g = "A" /\ score >= 850
        \/ g = "B" /\ score \in 700..849
        \/ g = "C" /\ score \in 550..699
        \/ g = "D" /\ score \in 400..549
        \/ g = "F" /\ score < 400}

\* C3: over 0..1000 determine_grade gives the grade of the one band that holds
\* the score (>= 850 A, 700..849 B, 550..699 C, 400..549 D, < 400 F), and two
\* scores have the same grade exactly when they have the same status string
C3_GradeBands ==
    (pc = "done" /\ entry.op \in GradeOps) =>
        /\ Bands(arg[1]) = {result[1][1]}
        /\ \A s \in 0..1000 :
              LET other == GradeOf(entry.op, s)
              IN  (other[1] = result[1][1]) <=> (other[2] = result[1][2])

\* the two sides of the A/B boundary were graded
C3_Witness ==
    /\ pc = "done" /\ entry.op = "determine_grade"
    /\ \/ arg = <<850>> /\ result[1][1] = "A"
       \/ arg = <<849>> /\ result[1][1] = "B"


(***************************************************************************)
(* Properties of the paginated fetch.                                      *)
(***************************************************************************)
\* the fetch is in its loop
Fetching == pc \in {"_paginate", "legacy_loop"}

\* C4: against a server that holds a finite dataset and answers every
\* request, a fetch that is in its loop (_paginate or get_incidents_for_period)
\* eventually leaves it, and while it is in the loop it has made fewer
\* requests than the dataset allows rounds
C4_FetchTerminates ==
    /\ Fetching ~> ~Fetching
    /\ [](Fetching => Len(requests) < RequestCap)

\* _paginate returned after as many full pages as the dataset holds and one
\* more request
C4_Witness ==
    /\ pc = "done" /\ outcome.kind = "returned"
    /\ Len(requests) > MaxItems \div PageSize

\* the operations that fetch through AxurClient._paginate
PaginateOps == {"get_tickets", "filter_by_origin", "get_credentials"}

\* the parameters the operation hands to _paginate
BaseParams(op) ==
    IF op = "get_credentials" THEN get_credentials.params
    ELSE get_tickets(TicketKwargs(op)).params

\* the items of the i-th response under the result key of the fetch
PageItems(i) == GetItems(responses[i], call.result_key)

\* C5: _paginate requests pages 1, 2, 3, ... in order, each request the base
\* parameters plus the page number; when it returns, every response was 200,
\* every page before the last had exactly page_size items, the last page is
\* empty or shorter than page_size, nothing was requested after it, and the
\* result is the concatenation of the pages in page order
C5_PagesInOrder ==
    entry.op \in PaginateOps =>
        /\ \A i \in 1..Len(requests) :
              requests[i] = [endpoint |-> call.endpoint,
                             params |-> BaseParams(entry.op) \o << <<"page", ToString(i)>> >>]
        /\ pc = "done" =>
              LET k == Len(requests)
              IN  /\ k >= 1 /\ Len(responses) = k
                  /\ \A i \in 1..k : responses[i].status = "200"
                  /\ \A i \in 1..(k - 1) : Len(PageItems(i)) = PageSize
                  /\ Len(PageItems(k)) < PageSize
                  /\ outcome = [kind |-> "returned",
                                items |-> Concat([i \in 1..k |-> PageItems(i)]),
                                error |-> None]

\* a page of exactly page_size items was followed by the empty page that
\* ended the fetch
C5_Witness ==
    /\ entry.op \in PaginateOps /\ pc = "done"
    /\ Len(requests) = 2
    /\ Len(PageItems(1)) = PageSize
    /\ PageItems(2) = <<>>
    /\ outcome.items = PageItems(1)

\* C6: a failed page request of _paginate (429, another status that is not
\* 200, or a network error) is the last request of the fetch (no further
\* page, no retry), the fetch raises, and no item list reaches the caller
C6_FailureEndsFetch ==
    entry.op \in PaginateOps =>
        \A i \in 1..Len(responses) :
            responses[i].status # "200" =>
                /\ i = Len(responses) /\ Len(requests) = i
                /\ pc = "raised"
                /\ outcome.kind = "raised" /\ outcome.error # None
                /\ outcome.items = <<>>

\* the second page failed after a first page of items that the caller never gets
C6_Witness ==
    /\ entry.op \in PaginateOps /\ pc = "raised"
    /\ Len(responses) = 2
    /\ responses[2].status = "429"
    /\ all_items # <<>>
    /\ outcome.items = <<>>

\* C7 as stated: a 429 answer of the tickets, credentials or customers
\* endpoint ends the call with the rate-limit error (violated by
\* get_customer_assets and by get_incidents_for_period, which give an empty
\* or truncated result)
C7_RateLimitSurfaced ==
    /\ \A i \in 1..Len(responses) :
          responses[i].status = "429" =>
              /\ pc = "raised"
              /\ outcome.error = "Exception: API rate limit exceeded. Please wait and try again."
    /\ kri.printed = "[Error] API Status 429" => pc = "raised"

\* C8 as stated: a scoring run whose incident fetch failed returns no score
\* (violated by calculate_risk_score_v3, which scores the tickets it got)
C8_NoScoreAfterFailedFetch ==
    (entry.op = V3 /\ kri.printed # None) => pc # "done" /\ final_score = <<>>

\* the factors with the neutral value for every optional signal that failed
NeutralUnrounded ==
    Unrounded(kri.weighted_score,
              IF "benchmark" \in kri.failed THEN Rat(1, 1)
              ELSE BenchmarkRatio(kri.total_incidents, kri.sector_median),
              V3StealerBand(kri.stealer_count),
              IF "efficiency" \in kri.failed THEN Rat(0, 1)
              ELSE SlowFactor(kri.slow_count, kri.total_count),
              IF "reputational" \in kri.failed THEN Rat(0, 1)
              ELSE ReputationalBand(kri.reputational_count))

\* C9: a run of calculate_risk_score_v3 never raises; when it has returned,
\* a failed benchmark counts as ratio 1.0, a failed efficiency as 100% with
\* slow factor 0, a failed reputational signal as factor 0, and the score is
\* the one of those neutral values (as int() gives it on the double)
C9_NeutralDefaults ==
    entry.op = V3 =>
        /\ pc # "raised"
        /\ pc = "done" =>
              LET f == V3Factors(kri)
                  t == Clamp(0, 1000, RTrunc(NeutralUnrounded))
              IN  /\ "benchmark" \in kri.failed => f.ratio = Rat(1, 1)
                  /\ "efficiency" \in kri.failed =>
                        f.efficiency_pct = Rat(100, 1) /\ f.slow_factor = Rat(0, 1)
                  /\ "reputational" \in kri.failed => f.reputational_factor = Rat(0, 1)
                  /\ \/ final_score = <<t>>
                     \/ RIsInt(NeutralUnrounded) /\ final_score = <<t - 1>>

\* a run with incidents returned its score after all three optional signals failed
C9_Witness ==
    /\ entry.op = V3 /\ pc = "done"
    /\ {"benchmark", "efficiency", "reputational"} \subseteq kri.failed
    /\ kri.weighted_score > 0
    /\ final_score = <<1000 - kri.weighted_score>>

\* the values of the query parameters with this key, in order
ParamValues(params, key) ==
    LET ps == SelectSeq(params, LAMBDA kv : kv[1] = key)
    IN  [i \in 1..Len(ps) |-> ps[i][2]]

\* C10 as stated: once calculate_risk_score or calculate_risk_score_per_brand
\* has asked get_tickets for the incidents by incident.date, the call has not
\* failed and its two range constraints are on incident.date, none on
\* open.date (violated: get_tickets takes no date_field and raises TypeError)
C10_IncidentDateFilter ==
    (/\ entry.op \in {"calculate_risk_score", "calculate_risk_score_per_brand"}
     /\ pc \notin {"get_customer_assets", "get_tickets"}) =>
        /\ pc # "raised"
        /\ ParamValues(call.params, "incident.date")
             = <<"ge:" \o _format_date(StartDate, FALSE), "le:" \o _format_date(EndDate, TRUE)>>
        /\ ParamValues(call.params, "open.date") = <<>>

(***************************************************************************)
(* Properties of the credential fetch and of the asset reconciliation.     *)
(***************************************************************************)
\* C11 as stated: get_credentials returns the concatenation, in page order,
\* of the detections arrays of the pages it fetched (violated: _paginate reads
\* the key "credentials", which the answers do not hold, so the result is
\* always empty)
C11_CredentialsReturned ==
    (entry.op = "get_credentials" /\ pc = "done") =>
        outcome.items = Concat([i \in 1..Len(responses) |-> responses[i].items])

\* the run of the match has returned
Matched == entry.op = "_match_domain_to_brand" /\ pc = "done"

\* the lowercase official website of a brand, empty without one
SiteOf(brand) ==
    Lower(Chars(IF brand.official_website = None THEN "" ELSE brand.official_website))

\* the brand's site holds the whole lowercase domain
ExactMatch(domain, brand) == IsSubstring(Lower(Chars(domain)), SiteOf(brand))

\* the brand's site holds the domain's leading label, which is longer than 3
FallbackMatch(domain, brand) ==
    LET label == BeforeFirstDot(Lower(Chars(domain)))
    IN  IsSubstring(label, SiteOf(brand)) /\ Len(label) > 3

\* C12: the match returns the name of the first brand, in list order, that
\* matches exactly or by the fallback, none when there is no such brand; an
\* earlier fallback match wins over a later exact match, and a leading label of
\* at most 3 characters matches no brand that does not match exactly
C12_FirstQualifyingBrand ==
    Matched =>
        LET domain == arg[1]
            brands == arg[2]
            qualifying == {i \in 1..Len(brands) :
                              ExactMatch(domain, brands[i]) \/ FallbackMatch(domain, brands[i])}
            label == BeforeFirstDot(Lower(Chars(domain)))
        IN  /\ qualifying = {} => result = <<None>>
            /\ \A i \in qualifying :
                  (\A j \in qualifying : i <= j) => result = <<brands[i].name>>
            /\ (Len(label) <= 3 /\ \A i \in 1..Len(brands) : ~ExactMatch(domain, brands[i]))
                  => result = <<None>>

\* a brand matched by the fallback alone was returned although the brand
\* after it matches exactly
C12_Witness ==
    /\ Matched
    /\ Len(arg[2]) = 2
    /\ ~ExactMatch(arg[1], arg[2][1]) /\ FallbackMatch(arg[1], arg[2][1])
    /\ ExactMatch(arg[1], arg[2][2])
    /\ arg[2][1].name # arg[2][2].name
    /\ result = <<arg[2][1].name>>

\* C13 as stated: "shop.acme.com" against the single brand with the website
\* "https://www.acme.com" gives that brand (violated: neither "shop.acme.com"
\* nor "shop" is a substring of the website, the result is none)
C13_ShopMatchesAcme ==
    (/\ Matched
     /\ arg = <<"shop.acme.com",
                <<BrandInfo("BrandA", "brand-a-key", "https://www.acme.com")>> >>) =>
        result = <<"BrandA">>

\* the customers endpoint answered 200 to the asset fetch
AssetsFetched ==
    /\ entry.op \in {"get_customer_assets", "calculate_risk_score_per_brand",
                     "calculate_all_brands_risk_score"}
    /\ Len(responses) >= 1
    /\ requests[1].endpoint = CUSTOMERS
    /\ responses[1].status = "200"

\* the active flag of the asset is true or absent
ActiveOrUnflagged(asset) == asset.active \in {"true", None}

\* C14: the brand list is exactly the BRAND assets whose active flag is true
\* or absent, in asset-list order; the domain map has exactly the names of the
\* DOMAIN assets with such a flag and a non-empty name as keys; an asset that
\* is only listed inactive is in neither; a domain no brand matches maps to none
C14_ActiveAssetsOnly ==
    AssetsFetched =>
        LET listed == responses[1].items
            brandAssets == SelectSeq(listed, LAMBDA a :
                               a.category = "BRAND" /\ ActiveOrUnflagged(a))
            domainNames == {listed[i].name : i \in
                               {j \in 1..Len(listed) :
                                   /\ listed[j].category = "DOMAIN"
                                   /\ ActiveOrUnflagged(listed[j])
                                   /\ listed[j].name # ""}}
            onlyInactive == {listed[i].name : i \in
                               {j \in 1..Len(listed) :
                                   /\ listed[j].active = "false"
                                   /\ \A k \in 1..Len(listed) :
                                         listed[k].name = listed[j].name
                                            => listed[k].active = "false"}}
        IN  /\ Len(assets.brands) = Len(brandAssets)
            /\ \A i \in 1..Len(brandAssets) :
                  /\ assets.brands[i].name = brandAssets[i].name
                  /\ assets.brands[i].key = brandAssets[i].key
            /\ DOMAIN assets.domain_to_brand = domainNames
            /\ \A n \in onlyInactive :
                  /\ n \notin DOMAIN assets.domain_to_brand
                  /\ \A i \in 1..Len(assets.brands) : assets.brands[i].name # n
            /\ \A d \in domainNames :
                  (\A i \in 1..Len(assets.brands) :
                      ~ExactMatch(d, assets.brands[i]) /\ ~FallbackMatch(d, assets.brands[i]))
                  => assets.domain_to_brand[d] = None

\* an asset without the flag was included next to an inactive one that was
\* left out, or an unmatched domain is in the map with none
C14_Witness ==
    /\ AssetsFetched
    /\ Len(responses[1].items) = 2
    /\ \/ /\ responses[1].items[1].active = "false"
          /\ responses[1].items[2].active = None
          /\ responses[1].items[2].category = "BRAND"
          /\ Len(assets.brands) = 1
       \/ /\ responses[1].items[1].active = "false"
          /\ \E d \in DOMAIN assets.domain_to_brand : assets.domain_to_brand[d] = None

(***************************************************************************)
(* Properties of the indicators.                                           *)
(***************************************************************************)
\* the type of a ticket as the functions read it: "unknown" when it has none
TypeOf(t) == IF t.detection.type = None THEN "unknown" ELSE t.detection.type

\* the resolution of a ticket where calculator.py reads it ("current") and
\* where mainTest.py reads it ("detection")
ResolutionOf(op, t) ==
    IF op = "get_weighted_incidents" THEN t.detection.resolution ELSE t.current.resolution

\* the incidents the function counts: all but the discarded ones when the
\* flag is set, all otherwise
Kept(op, tickets, flag) ==
    SelectSeq(tickets, LAMBDA t : ~flag \/ ResolutionOf(op, t) # "discarded")

\* the weight of a type in the table of the function, 10 for a type it lacks
TableWeight(op, type) ==
    IF op = "get_weighted_incidents"
    THEN (IF type \in IncidentTypes THEN INCIDENT_WEIGHTS(type) ELSE 10)
    ELSE (IF type \in ThreatTypes THEN THREAT_WEIGHTS(type) ELSE 10)

RECURSIVE SumOfWeights(_, _)
SumOfWeights(op, tickets) ==
    IF tickets = <<>> THEN 0
    ELSE TableWeight(op, TypeOf(Head(tickets))) + SumOfWeights(op, Tail(tickets))

TypesOf(tickets) == [i \in 1..Len(tickets) |-> tickets[i].detection.type]

\* C15: calculate_weighted_incidents returns the sum of the table weights of
\* the counted incidents, 10 for a type the table lacks or a missing type, and
\* their number; ransomware-attack, phishing and an unknown type give 160 and 3
C15_WeightedSum ==
    (pc = "done" /\ entry.op = "calculate_weighted_incidents") =>
        LET counted == Kept(entry.op, arg[1], entry.exclude_discarded)
        IN  /\ result[1].weighted_score = SumOfWeights(entry.op, counted)
            /\ result[1].total_count = Len(counted)
            /\ \A t \in {counted[i] : i \in 1..Len(counted)} :
                  TypeOf(t) \notin ThreatTypes => result[1].breakdown[TypeOf(t)].weight = 10
            /\ (/\ ~entry.exclude_discarded
                /\ TypesOf(arg[1]) = <<"ransomware-attack", "phishing", "unknown-type">>)
                  => result[1].weighted_score = 160 /\ result[1].total_count = 3

\* the three incidents of the example were weighed
C15_Witness ==
    /\ pc = "done" /\ entry.op = "calculate_weighted_incidents"
    /\ ~entry.exclude_discarded
    /\ TypesOf(arg[1]) = <<"ransomware-attack", "phishing", "unknown-type">>
    /\ result[1].weighted_score = 160

\* the number of counted incidents of a type
CountOfType(op, tickets, flag, type) ==
    Len(SelectSeq(Kept(op, tickets, flag), LAMBDA t : TypeOf(t) = type))

\* C16: on the same list, with the flag set a discarded incident adds nothing
\* to the weighted score, the count or the breakdown; without the flag it adds
\* its weight and one; every other incident is counted either way
C16_DiscardedExcluded ==
    (pc = "done" /\ entry.op \in WeighOps) =>
        LET tickets == arg[1]
            flag == entry.exclude_discarded
            kept == Kept(entry.op, tickets, flag)
            discarded == SelectSeq(tickets, LAMBDA t : ResolutionOf(entry.op, t) = "discarded")
            others == SelectSeq(tickets, LAMBDA t : ResolutionOf(entry.op, t) # "discarded")
            total == IF entry.op = "get_weighted_incidents"
                     THEN result[1].total_incidents ELSE result[1].total_count
        IN  /\ result[1].weighted_score
                 = SumOfWeights(entry.op, others)
                   + (IF flag THEN 0 ELSE SumOfWeights(entry.op, discarded))
            /\ total = Len(others) + (IF flag THEN 0 ELSE Len(discarded))
            /\ entry.op = "calculate_weighted_incidents" =>
                  /\ DOMAIN result[1].breakdown = {TypeOf(kept[i]) : i \in 1..Len(kept)}
                  /\ \A type \in DOMAIN result[1].breakdown :
                        result[1].breakdown[type].count
                           = CountOfType(entry.op, tickets, flag, type)

\* with the flag set, a discarded incident was left out next to a resolved
\* one that was counted
C16_Witness ==
    /\ pc = "done" /\ entry.op = "calculate_weighted_incidents"
    /\ entry.exclude_discarded
    /\ \E i \in 1..Len(arg[1]) : arg[1][i].current.resolution = "discarded"
    /\ \E i \in 1..Len(arg[1]) : arg[1][i].current.resolution = "resolved"
    /\ result[1].total_count = Len(arg[1]) - 1
    /\ "phishing" \notin DOMAIN result[1].breakdown

\* p = q as rationals
REq(p, q) == p[1] * q[2] = q[1] * p[2]

\* the stealer factor of a count
StealerStep(n) ==
    CASE n = 0 -> Rat(0, 1)
      [] n \in 1..5 -> Rat(2, 10)
      [] n \in 6..20 -> Rat(5, 10)
      [] n > 20 -> Rat(1, 1)

\* the reputational factor of a count
ReputationalStep(n) ==
    CASE n = 0 -> Rat(0, 1)
      [] n \in 1..10 -> Rat(1, 10)
      [] n \in 11..50 -> Rat(3, 10)
      [] n > 50 -> Rat(5, 10)

\* C17: the stealer factor (of calculator.py and of calculate_risk_score_v3)
\* is 0.0 for 0, 0.2 for 1..5, 0.5 for 6..20, 1.0 above 20; the reputational
\* factor is 0.0 for 0, 0.1 for 1..10, 0.3 for 11..50, 0.5 above 50
C17_StepFunctions ==
    (pc = "done" /\ entry.op \in BandOps) =>
        IF entry.op = "ReputationalBand"
        THEN REq(result[1], ReputationalStep(arg[1]))
        ELSE REq(result[1], StealerStep(arg[1]))

\* a count on the upper side of one of the boundaries 5/6 and 50/51 was banded
C17_Witness ==
    /\ pc = "done"
    /\ \/ entry.op = "StealerBand" /\ arg = <<6>> /\ REq(result[1], Rat(1, 2))
       \/ entry.op = "ReputationalBand" /\ arg = <<51>> /\ REq(result[1], Rat(1, 2))

\* q is between lo and hi
RBetween(lo, q, hi) == ~RLess(q, lo) /\ ~RLess(hi, q)

\* C18: for a histogram of 8 bucket counts, slowFactor is (the sum of the
\* three slowest buckets / the total) * 0.5 and efficiencyPct is (the total -
\* that sum) / the total * 100, so slowFactor is in 0..0.5 and efficiencyPct in
\* 0..100; a total of 0 gives efficiencyPct 100 and slowFactor 0
C18_Efficiency ==
    (pc = "done" /\ entry.op = "get_operational_efficiency") =>
        LET h == arg[1]
            slowest == h["upTo30Days"] + h["upTo60Days"] + h["over60Days"]
            total == h["lessThan1Day"] + h["upTo2Days"] + h["upTo5Days"] + h["upTo10Days"]
                     + h["upTo15Days"] + h["upTo30Days"] + h["upTo60Days"] + h["over60Days"]
            r == result[1]
        IN  /\ total > 0 =>
                  /\ REq(r.slow_factor, Rat(slowest, 2 * total))
                  /\ REq(r.efficiency_pct, Rat((total - slowest) * 100, total))
            /\ total = 0 =>
                  REq(r.efficiency_pct, Rat(100, 1)) /\ REq(r.slow_factor, Rat(0, 1))
            /\ RBetween(Rat(0, 1), r.slow_factor, Rat(1, 2))
            /\ RBetween(Rat(0, 1), r.efficiency_pct, Rat(100, 1))

\* a histogram with slow and fast resolutions gave values inside the ranges
C18_Witness ==
    /\ pc = "done" /\ entry.op = "get_operational_efficiency"
    /\ result[1].total_count > result[1].slow_count
    /\ result[1].slow_count > 0
    /\ RLess(Rat(0, 1), result[1].slow_factor)
    /\ RLess(result[1].efficiency_pct, Rat(100, 1))

AllBrands == entry.op = "calculate_all_brands_risk_score" /\ pc = "done"

\* the incidents of the list whose assets contain the name or the key of the brand
OfBrand(tickets, brand) ==
    SelectSeq(tickets, LAMBDA t : brand.name \in t.detection.assets
                                  \/ brand.key \in t.detection.assets)

\* C19: per-brand scoring scores, for each brand, exactly the incidents of
\* the shared list whose assets contain the brand's name or the brand's key
\* (here for calculate_all_brands_risk_score called with verbose, which
\* gives a result for every brand)
C19_NameOrKey ==
    (AllBrands /\ result[1].verbose) =>
        /\ Len(result[1].results) = Len(assets.brands)
        /\ \A i \in 1..Len(assets.brands) :
              result[1].results[i] =
                 calculate_brand_risk_score(assets.brands[i].name,
                                            OfBrand(outcome.items, assets.brands[i]))

\* C20: calculate_all_brands_risk_score returns one result for every brand
\* the asset fetch returned, brands without tickets included, and the same
\* list whether verbose is true or false
C20_OneResultPerBrand ==
    AllBrands =>
        /\ Len(result[1].results) = Len(assets.brands)
        /\ \A i \in 1..Len(assets.brands) :
              result[1].results[i].brand_name = assets.brands[i].name
        /\ result[1].results =
              AllBrandsResults(assets.brands, outcome.items, ~result[1].verbose)

InLoop == entry.op \in LoopOps

\* the result with the dict its breakdown refers to
Deref(l, r) == [r EXCEPT !.breakdown = l.heap[r.breakdown]]

\* what the loop gives when the brand is the only one of the list
Alone(op, brand, all_tickets, verbose) ==
    IF op = "per_brand_loop"
    THEN <<BrandRiskScore(brand.name, PerBrandTickets(all_tickets, brand.name, brand.key))>>
    ELSE AllBrandsResults(<<brand>>, all_tickets, verbose)

\* the results of the brands before the n-th, each scored alone
RECURSIVE AloneUpTo(_, _, _, _, _)
AloneUpTo(op, brands, n, all_tickets, verbose) ==
    IF n <= 1 THEN <<>>
    ELSE AloneUpTo(op, brands, n - 1, all_tickets, verbose)
         \o Alone(op, brands[n - 1], all_tickets, verbose)

V3Done == entry.op = V3 /\ pc = "done" /\ final_score # <<>>

\* int() of the exact final value of calculate_risk_score_v3 on the indicators k
V3Score(k) == RTrunc(V3Clamped(V3Factors(k)))

\* the indicators after one more incident of weight w
OneMore(k, w) == [k EXCEPT !.total_incidents = @ + 1, !.weighted_score = @ + w]

\* one more incident does not raise the final score of calculate_risk_score_v3
MoreIncidentsV3 ==
    V3Done => \A t \in IncidentTypes \cup {"unknown"} :
                 V3Score(OneMore(kri, IncidentWeight(t))) <= V3Score(kri)

\* one more ticket does not raise the final score of calculate_risk_score
MoreIncidents4 ==
    (entry.op = "RiskScore" /\ pc = "done" /\ Len(arg[1]) < MaxItems) =>
        \A t \in TicketKinds :
            RiskScore(Append(arg[1], t), entry.brand_filter, entry.exclude_discarded).score
               <= result[1].score

FactorValues == {Rat(0, 1), Rat(1, 10), Rat(2, 10), Rat(3, 10), Rat(1, 2), Rat(1, 1)}

\* a higher stealer, slow or reputational factor does not raise the final score
HigherFactor ==
    V3Done =>
        LET f == V3Factors(kri)
        IN  \A v \in FactorValues :
              /\ RLess(f.stealer_factor, v) =>
                    RTrunc(V3Clamped([f EXCEPT !.stealer_factor = v])) <= V3Score(kri)
              /\ RLess(f.slow_factor, v) =>
                    RTrunc(V3Clamped([f EXCEPT !.slow_factor = v])) <= V3Score(kri)
              /\ RLess(f.reputational_factor, v) =>
                    RTrunc(V3Clamped([f EXCEPT !.reputational_factor = v])) <= V3Score(kri)

\* C22: with the sector median and the other inputs fixed, one more
\* incident never raises finalScore, and a higher stealer, slow or
\* reputational factor never raises finalScore
C22_Monotonic == MoreIncidentsV3 /\ MoreIncidents4 /\ HigherFactor

\* round(q) for q >= 0, a half going up (no tick of the inputs is a half)
RoundInt(q) == RFloor(RAdd(q, Rat(1, 2)))

\* C23: for a ticket whose predictionRisk lies in 0.0..1.0 each of the five
\* components of calculate_dread_score lies in 1..10, Exploitability is
\* round(predictionRisk * 10), and the total score is the mean of the five
\* rounded to one decimal
C23_DreadComponents ==
    (entry.op = "calculate_dread_score" /\ pc = "done") =>
        LET c == result[1].components
            given == arg[1].detection.prediction_risk
            risk == IF given = <<>> THEN Rat(1, 2) ELSE given
        IN  /\ \A k \in {"D", "R", "E", "A", "D2"} : c[k] \in 1..10
            /\ c.E = RoundInt(RMul(risk, Rat(10, 1)))
            /\ REq(result[1].score, Round1(Rat(c.D + c.R + c.E + c.A + c.D2, 5)))

\* how many times x is in the list
Occurrences(list, x) == Cardinality({i \in 1..Len(list) : list[i] = x})

\* C24: analyze_dread returns a list ordered by total_score, highest first,
\* with exactly one result for each ticket analysed, and analyses no more
\* than limit tickets, for every limit, 0 included
C24_RankedAndLimited ==
    (entry.op = "analyze_dread" /\ pc = "done") =>
        LET results == result[1]
            analysed == Min(arg[2], Len(arg[1]))
        IN  /\ \A i \in 1..(Len(results) - 1) :
                  results[i].total_score >= results[i + 1].total_score
            /\ Len(results) <= arg[2]
            /\ Len(results) = analysed
            /\ \A r \in {results[i] : i \in 1..Len(results)} :
                  Occurrences(results, r)
                     = Cardinality({i \in 1..analysed : DreadResult(arg[1][i]) = r})

Classified == entry.op = "classify_stride" /\ pc = "done"

\* the category the lookup table gives the type of the i-th incident, the
\* default for a type it lacks
CategoryOf(tickets, i) ==
    LET type == TypeOf(tickets[i])
    IN  IF type \in StrideTypes THEN STRIDE_MAPPING(type) ELSE "I"

RECURSIVE SumOfCounts(_)
SumOfCounts(list) == IF list = <<>> THEN 0 ELSE Head(list).count + SumOfCounts(Tail(list))

RECURSIVE RSumExact(_)
RSumExact(list) ==
    IF list = <<>> THEN Rat(0, 1) ELSE RAdd(Head(list).percentage.exact, RSumExact(Tail(list)))

\* the largest scale of the percentages of the list
RECURSIVE MaxScale(_)
MaxScale(list) ==
    IF list = <<>> THEN 0 ELSE Max(Head(list).percentage.scale, MaxScale(Tail(list)))

\* the sum of the errors of the percentages, in units of
\* 1 / (total * 2^MaxScale(list))
RECURSIVE ErrorSum(_, _)
ErrorSum(list, scale) ==
    IF list = <<>> THEN 0
    ELSE Head(list).percentage.error * Pow2(scale - Head(list).percentage.scale)
         + ErrorSum(Tail(list), scale)

\* generator.py: every incident is in exactly one returned category, only
\* categories with members are returned, the counts sum to the number of
\* incidents and each percentage is count / total * 100; an empty batch
\* returns no category
StrideConsistent ==
    LET tickets == arg[1]
        results == result[1]
    IN  /\ \A i \in 1..Len(tickets) :
              Cardinality({n \in 1..Len(results) :
                              results[n].category = CategoryOf(tickets, i)}) = 1
        /\ \A n \in 1..Len(results) :
              /\ results[n].count >= 1
              /\ results[n].count
                    = Cardinality({i \in 1..Len(tickets) :
                                      CategoryOf(tickets, i) = results[n].category})
              /\ REq(results[n].percentage.exact, Rat(100 * results[n].count, Len(tickets)))
        /\ SumOfCounts(results) = Len(tickets)
        /\ tickets = <<>> => results = <<>>
        /\ tickets # <<>> => REq(RSumExact(results), Rat(100, 1))

\* mainTest.py: the categories of the returned dict have members, and their
\* counts sum to the number of incidents
RECURSIVE SumOfDict(_, _)
SumOfDict(counts, keys) ==
    IF keys = {} THEN 0
    ELSE LET k == CHOOSE x \in keys : TRUE
         IN  counts[k] + SumOfDict(counts, keys \ {k})

LegacyStrideConsistent ==
    LET counts == result[1]
    IN  /\ \A cat \in DOMAIN counts : counts[cat] >= 1
        /\ SumOfDict(counts, DOMAIN counts) = Len(arg[1])

\* the percentages of generator.py sum to 100 within the rounding of the
\* doubles: the sum of their errors is less than 2^-42
StrideWithinRounding ==
    Classified =>
        /\ StrideConsistent
        /\ LET units == ErrorSum(result[1], MaxScale(result[1]))
           IN  /\ MaxScale(result[1]) >= 52 \/ result[1] = <<>>
               /\ Abs(units) <= 1024 * Max(1, Len(arg[1]))

\* C25: for a non-empty batch classify_stride gives each incident exactly one
\* category (the default for a type the table lacks), returns only categories
\* with members, the counts sum to the number of incidents and the returned
\* percentages sum to 100; for an empty batch it returns no category
C25_PercentagesSumTo100 ==
    /\ Classified =>
          StrideConsistent /\ ErrorSum(result[1], MaxScale(result[1])) = 0
    /\ (entry.op = "stride_counts" /\ pc = "done") => LegacyStrideConsistent

\* the base value of the result r of a 4-factor calculator
BaseOf(r, sector_median) ==
    BaseScore(r.weighted_score, BenchmarkRatio(r.total_incidents, sector_median))

\* C26: in calculate_risk_score (sector median 100) and
\* calculate_risk_score_per_brand (sector median 50) the base value is
\* min(500, 2 * weightedScore) for every ticket set, so the final score and
\* the grade of a ticket set are the same under median 50 and median 100
C26_MedianIrrelevant ==
    /\ (entry.op = "RiskScore" /\ pc = "done") =>
          /\ REq(BaseOf(result[1], 100), RInt(Min(500, 2 * result[1].weighted_score)))
          /\ entry.brand_filter = None /\ ~entry.exclude_discarded =>
                LET brand == BrandRiskScore("BrandA", arg[1])
                IN  brand.score = result[1].score /\ brand.grade = result[1].grade
    /\ (entry.op = "BrandRiskScore" /\ pc = "done") =>
          /\ REq(BaseOf(result[1], 50), RInt(Min(500, 2 * result[1].weighted_score)))
          /\ LET tenant == RiskScore(arg[1], None, FALSE)
             IN  tenant.score = result[1].score /\ tenant.grade = result[1].grade

\* a brand with more than half the median of incidents, all of the lowest
\* weight and short of the cap when doubled: the ratio is above 0.5
C26_Witness ==
    /\ entry.op = "BrandRiskScore" /\ pc = "done"
    /\ result[1].total_incidents = 26
    /\ result[1].weighted_score = 350
    /\ REq(BaseOf(result[1], 50), Rat(500, 1))

\* the infostealer-credential tickets of a list
Stealers(tickets) ==
    Len(SelectSeq(tickets, LAMBDA t : t.detection.type = "infostealer-credential"))

\* 1000 minus the penalty of the result r, before int() and the clamps
Unclamped(op, r) ==
    LET factor == IF "stealer_factor" \in DOMAIN r THEN r.stealer_factor
                  ELSE StealerBand(r.stealer_count)
        base == BaseOf(r, IF op = "BrandRiskScore" THEN 50 ELSE 100)
    IN  RSub(Rat(1000, 1), RMul(base, RAdd(Rat(1, 1), factor)))

\* C27: in calculate_risk_score, calculate_risk_score_per_brand and
\* calculate_brand_risk_score a ticket set with at most 5
\* infostealer-credential tickets scores at least 400, so grade F needs at
\* least 6 of them, and 1000 minus the penalty is never below 0
C27_FloorOf400 ==
    (entry.op \in ScoreOps /\ pc = "done") =>
        /\ Stealers(arg[1]) <= 5 => result[1].score >= 400
        /\ result[1].grade = "F" => Stealers(arg[1]) >= 6
        /\ ~RLess(Unclamped(entry.op, result[1]), Rat(0, 1))
        /\ result[1].score = RTrunc(Unclamped(entry.op, result[1]))

\* five infostealer tickets and a ransomware attack: the base is at its cap
\* and the score is exactly 400
C27_Witness ==
    /\ entry.op \in ScoreOps /\ pc = "done"
    /\ Stealers(arg[1]) = 5
    /\ Len(arg[1]) = 6
    /\ result[1].weighted_score = 450
    /\ result[1].score = 400
    /\ result[1].grade = "D"

\* six infostealer tickets reach grade F, and 21 of them the score 0
C27_WitnessF ==
    /\ entry.op \in ScoreOps /\ pc = "done"
    /\ Stealers(arg[1]) = 21
    /\ result[1].score = 0
    /\ result[1].grade = "F"

\* the sum of the field f over the entries of a breakdown whose types are keys
RECURSIVE SumOverTypes(_, _, _)
SumOverTypes(breakdown, keys, f) ==
    IF keys = {} THEN 0
    ELSE LET k == CHOOSE x \in keys : TRUE
         IN  SumOverTypes(breakdown, keys \ {k}, f) + breakdown[k][f]

\* a consistent result of calculate_weighted_incidents on a list of tickets
ConsistentBreakdown(r, tickets, exclude_discarded) ==
    LET counted == SelectSeq(tickets, LAMBDA t :
                       ~(exclude_discarded /\ t.current.resolution = "discarded"))
    IN  /\ \A k \in DOMAIN r.breakdown :
              /\ r.breakdown[k].count >= 1
              /\ r.breakdown[k].score = r.breakdown[k].count * r.breakdown[k].weight
              /\ r.breakdown[k].count =
                     Cardinality({i \in 1..Len(counted) :
                                     Get(counted[i].detection.type, "unknown") = k})
        /\ SumOverTypes(r.breakdown, DOMAIN r.breakdown, "count") = r.total_count
        /\ SumOverTypes(r.breakdown, DOMAIN r.breakdown, "score") = r.weighted_score
        /\ r.total_count = Len(counted)

\* C28: the breakdown calculate_weighted_incidents returns is consistent
\* (every entry has a count of at least 1 and score = count * weight, the
\* counts of the entries sum to the total of incidents and their scores to
\* the weighted score), and the call leaves the list of tickets as it was
C28_ConsistentBreakdown ==
    /\ [](entry.op = "calculate_weighted_incidents" /\ pc = "done" =>
             ConsistentBreakdown(result[1], arg[1], entry.exclude_discarded))
    /\ [][entry.op = "calculate_weighted_incidents" => arg' = arg]_vars

\* two types, one of them counted twice, and a discarded ticket left out
C28_Witness ==
    /\ entry.op = "calculate_weighted_incidents" /\ pc = "done"
    /\ entry.exclude_discarded
    /\ Len(arg[1]) = 4
    /\ result[1].total_count = 3
    /\ DOMAIN result[1].breakdown = {"ransomware-attack", "unknown"}
    /\ result[1].breakdown["unknown"] = [count |-> 2, weight |-> 10, score |-> 20]
    /\ result[1].weighted_score = 120

\* the 4-factor calculators that leave discarded tickets out of KRI 1
Excluding ==
    \/ entry.op = "RiskScore" /\ entry.exclude_discarded
    \/ entry.op = "calculate_brand_risk_score"

\* the tickets the calculator works on: those of the brand when
\* calculate_risk_score has a brand filter
Fetched ==
    IF entry.op = "RiskScore" /\ entry.brand_filter # None
    THEN SelectSeq(arg[1], LAMBDA t : entry.brand_filter \in t.detection.assets)
    ELSE arg[1]

NotDiscarded(tickets) == SelectSeq(tickets, LAMBDA t : t.current.resolution # "discarded")

\* the sum of the weights of a list of tickets
RECURSIVE WeightSum(_)
WeightSum(tickets) ==
    LET n == Len(tickets)
    IN  IF n = 0 THEN 0
        ELSE IF n = 1 THEN TableWeight(entry.op, TypeOf(tickets[1]))
        ELSE WeightSum(SubSeq(tickets, 1, n \div 2)) + WeightSum(SubSeq(tickets, n \div 2 + 1, n))

\* C29: with exclude_discarded set, discarded tickets are left out of the
\* weighted score and of the total of incidents, while the stealer factor is
\* the band of the infostealer-credential tickets among all the fetched
\* tickets, the discarded ones included
C29_StealerOverAll ==
    (Excluding /\ pc = "done") =>
        /\ result[1].total_incidents = Len(NotDiscarded(Fetched))
        /\ result[1].weighted_score = WeightSum(NotDiscarded(Fetched))
        /\ REq(result[1].stealer_factor, StealerBand(Stealers(Fetched)))

\* six discarded infostealer tickets and a ransomware attack: one incident
\* of weight 100, and the stealer factor in the band of 6 to 20
C29_Witness ==
    /\ Excluding /\ pc = "done"
    /\ Stealers(Fetched) = 6
    /\ Stealers(NotDiscarded(Fetched)) = 0
    /\ result[1].total_incidents = 1
    /\ result[1].weighted_score = 100
    /\ REq(result[1].stealer_factor, Rat(5, 10))
    /\ result[1].score = 700

\* the benchmark ratio of the result r of a 4-factor calculator
RatioOf(op, r) ==
    IF "benchmark_ratio" \in DOMAIN r THEN r.benchmark_ratio
    ELSE BenchmarkRatio(r.total_incidents, IF op = "BrandRiskScore" THEN 50 ELSE 100)

\* C30: without incidents (no ticket fetched, or none of the brand) the
\* 4-factor calculators return weighted score 0, 0 incidents, benchmark
\* ratio 0, an empty breakdown, the score 1000 and grade A
C30_NoIncidents ==
    (entry.op \in ScoreOps /\ pc = "done" /\ Fetched = <<>>) =>
        /\ result[1].weighted_score = 0
        /\ result[1].total_incidents = 0
        /\ REq(RatioOf(entry.op, result[1]), Rat(0, 1))
        /\ DOMAIN result[1].breakdown = {}
        /\ REq(BaseOf(result[1], IF entry.op = "BrandRiskScore" THEN 50 ELSE 100), Rat(0, 1))
        /\ result[1].score = 1000
        /\ result[1].grade = "A"

\* tickets of another brand only: the brand of the filter has no incident
C30_Witness ==
    /\ entry.op = "RiskScore" /\ pc = "done"
    /\ entry.brand_filter = "BrandA"
    /\ Len(arg[1]) = 2
    /\ Fetched = <<>>
    /\ result[1].score = 1000

\* no ticket at all handed to calculate_brand_risk_score
C30_WitnessEmpty ==
    /\ entry.op = "calculate_brand_risk_score" /\ pc = "done"
    /\ arg[1] = <<>>
    /\ result[1].grade = "A"

=============================================================================
